---- MODULE Spec2Model ----
(***************************************************************************)
(* A model of the DDO entry generator (generate_ddo_entries.py): the text  *)
(* helpers, the field extractors, the Entry Assembler (parse_entry) and    *)
(* the Batch Driver (main).                                                *)
(*                                                                         *)
(* Texts are sequences of one-character strings, so that stripping,        *)
(* regular-expression matching and concatenation are computed character   *)
(* by character as the Python code computes them.  An optional value       *)
(* (Python's None or a value; a selector's "no match" or a node) is None   *)
(* or Some(v).                                                             *)
(***************************************************************************)
EXTENDS Naturals, Integers, Sequences, FiniteSets, TLC

VARIABLES
    wfHeadword,   \* transform_wordforms: the headword argument
    wfForms,      \* transform_wordforms: the forms argument
    wfOut,        \* transform_wordforms: the returned list
    wfPc,         \* "call" before the call, "done" after it
    clTexts,      \* clean_links: the raw text of each <a> tag, in order
    clOut,        \* clean_links: the returned list
    clPc,         \* "call" before the call, "done" after it
    udSoup,       \* parse_udtale: the pronunciation part of the document
    udOut,        \* parse_udtale: the returned list
    udPc,         \* "call" before the call, "done" after it
    dfSoup,       \* parse_definitions: the definitions part of the document
    dfOut,        \* parse_definitions: what it returned or raised, and its log
    dfPc,         \* "call" before the call, "done" after it
    fxSoup,       \* parse_fixed_expressions: the fixed-expressions part
    fxOut,        \* parse_fixed_expressions: what it returned or raised
    fxPc,         \* "call" before the call, "done" after it
    etSoup,       \* parse_etymology: the origin part of the document
    etOut,        \* parse_etymology: None, or Some of the returned dict
    etPc,         \* "call" before the call, "done" after it
    odSoup,       \* parse_orddannelser: the word-formation part
    odOut,        \* parse_orddannelser: what it returned or raised
    odPc,         \* "call" before the call, "done" after it
    dir,          \* main: the names of the files in HTML_DIR
    content,      \* main: the document in each file
    listing,      \* main: sorted(os.listdir(HTML_DIR))
    fileNo,       \* main: the position of the loop in listing
    entries,      \* main: the list entries
    skipped_files,\* main: the list skipped_files
    stdout,       \* main: the lines printed so far
    output,       \* main: None, or Some of what was written to OUTPUT
    pc,           \* main: "start", "loop", "report", "dump", "done", "crashed"
    upFs,         \* updater: the content of each .html file of HTML_DIR
    upBak,        \* updater: the content of the .bak file beside each file
    upAlt,        \* updater: find_alternate_urls of each file's document
    upListing,    \* updater main: sorted(os.listdir(HTML_DIR))
    upNo,         \* updater main: the position of the loop in upListing
    upUrlNo,      \* download_best: the position of the loop in urls
    best,         \* download_best: best_url, best_content, best_size
    upGot,        \* download_best: what each download so far returned
    upAttempt,    \* download_with_retries: attempt
    upResponses,  \* download_with_retries: the responses to its requests
    upReturned,   \* download_with_retries: None, or Some of what it returned
    upPc,         \* updater main: "start", "loop", "download", "best", "done"
    ddEntries,    \* dedupe: the list loaded from ddo_entries.json
    ddOut,        \* dedupe: the list written to ddo_entries_unique.json
    ddPc,         \* "call" before the script runs, "done" after it
    trEntries,    \* translation driver: the list loaded from INPUT
    done,         \* translation driver: the progress map done
    trSaved,      \* translation driver: None, or Some of what OUTPUT holds
    trNo,         \* translation driver: the position of the loop in entries
    trDefs,       \* translation driver: defs of the current headword
    trIdx,        \* translation driver: idx, where the current batch starts
    merged,       \* translation driver: merged of the split path
    trAttempt,    \* translate_definitions_for_entry: attempt
    last_feedback,\* translate_definitions_for_entry: last_feedback
    trOutcome,    \* Some of how the call ended that the last step ended, or None
    trPc,         \* translation driver: "loop", "call", "done"
    auList,       \* audio downloader: the udtale records of the entries, in order
    audio_map,    \* audio downloader: the dict audio_map
    auLocal,      \* audio downloader: the paths of the files in OUTPUT_DIR
    auNo,         \* audio downloader: the position of the loops in auList
    auRequests,   \* audio downloader: the requests made, the URL and how each ended
    auSaved,      \* audio downloader: None, or Some of what MAP_JSON holds
    auPc          \* audio downloader: "loop", "save", "done"

wfVars == <<wfHeadword, wfForms, wfOut, wfPc>>
clVars == <<clTexts, clOut, clPc>>
udVars == <<udSoup, udOut, udPc>>
mainVars == <<dir, content, listing, fileNo, entries, skipped_files, stdout, output, pc>>
dfVars == <<dfSoup, dfOut, dfPc>>
fxVars == <<fxSoup, fxOut, fxPc>>
etVars == <<etSoup, etOut, etPc>>
odVars == <<odSoup, odOut, odPc>>
extractorVars == <<dfVars, fxVars, etVars, odVars>>
upVars == <<upFs, upBak, upAlt, upListing, upNo, upUrlNo, best, upGot,
            upAttempt, upResponses, upReturned, upPc>>
ddVars == <<ddEntries, ddOut, ddPc>>
trVars == <<trEntries, done, trSaved, trNo, trDefs, trIdx, merged, trAttempt,
            last_feedback, trOutcome, trPc>>
auVars == <<auList, audio_map, auLocal, auNo, auRequests, auSaved, auPc>>
toolVars == <<upVars, ddVars, trVars, auVars>>
vars == <<wfVars, clVars, udVars, mainVars, extractorVars, toolVars>>

None == [some |-> FALSE]
Some(v) == [some |-> TRUE, val |-> v]

(***************************************************************************)
(* Bounds of the model.                                                    *)
(***************************************************************************)
MaxForms == 2            \* word forms in one call of transform_wordforms
MaxSuffixLetters == 7    \* letters after the hyphen in a generated form
MaxLinks == 3            \* <a> tags in one call of clean_links
MaxUdChildren == 3       \* children of the pronunciation text container
MaxFiles == 4            \* files in HTML_DIR
MaxBetChildren == 4      \* children of the definitions block
MaxFuChildren == 4       \* children of the fixed-expressions section
MaxEtChildren == 5       \* children of the origin text
MaxOrdBoxes == 3         \* category boxes of the word-formation block

(***************************************************************************)
(* Characters.                                                             *)
(***************************************************************************)
Digits == {"0", "1", "2", "3", "4", "5", "6", "7", "8", "9"}

Whitespace == {" ", "\t", "\n", "\r", "\f"}

\* The character class of SUFFIX_RE: [A-Za-zæøåÆØÅ]
SuffixLetters ==
    {"a", "b", "c", "d", "e", "f", "g", "h", "i", "j", "k", "l", "m",
     "n", "o", "p", "q", "r", "s", "t", "u", "v", "w", "x", "y", "z",
     "A", "B", "C", "D", "E", "F", "G", "H", "I", "J", "K", "L", "M",
     "N", "O", "P", "Q", "R", "S", "T", "U", "V", "W", "X", "Y", "Z",
     "æ", "ø", "å", "Æ", "Ø", "Å"}

\* The repetition bounds {1,6} of SUFFIX_RE
SuffixMinLetters == 1
SuffixMaxLetters == 6

Front(s) == SubSeq(s, 1, Len(s) - 1)
Last(s) == s[Len(s)]

(***************************************************************************)
(* str.strip(): leading and trailing whitespace removed.                   *)
(***************************************************************************)
RECURSIVE LStrip(_)
LStrip(s) ==
    IF s # <<>> /\ Head(s) \in Whitespace THEN LStrip(Tail(s)) ELSE s

RECURSIVE RStrip(_)
RStrip(s) ==
    IF s # <<>> /\ Last(s) \in Whitespace THEN RStrip(Front(s)) ELSE s

Strip(s) == RStrip(LStrip(s))

\* tag.get_text(strip=True) of a tag that holds one string
GetTextStrip(raw) == Strip(raw)

(***************************************************************************)
(* DIGITS_TRAIL_RE.sub("", s) with DIGITS_TRAIL_RE = \d+$ : the run of     *)
(* digits that ends the text is removed.  Without re.MULTILINE, $ matches  *)
(* at the end of the text and also just before a newline that ends it, so  *)
(* a run of digits followed by one final newline is removed as well and    *)
(* the newline stays.                                                      *)
(***************************************************************************)
RECURSIVE DropTrailingDigits(_)
DropTrailingDigits(s) ==
    IF s # <<>> /\ Last(s) \in Digits THEN DropTrailingDigits(Front(s)) ELSE s

DigitsTrailSub(s) ==
    IF s # <<>> /\ Last(s) = "\n"
    THEN DropTrailingDigits(Front(s)) \o <<"\n">>
    ELSE DropTrailingDigits(s)

(***************************************************************************)
(* SUFFIX_RE.match(f) with SUFFIX_RE = ^-[A-Za-zæøåÆØÅ]{1,6}$              *)
(***************************************************************************)
\* SUFFIX_RE written with + for {1,6}: no upper limit on the letters
SuffixCoreNoLimit(f) ==
    /\ Len(f) >= 1 + SuffixMinLetters
    /\ f[1] = "-"
    /\ \A i \in 2..Len(f) : f[i] \in SuffixLetters

SuffixCore(f) ==
    /\ Len(f) >= 1 + SuffixMinLetters
    /\ Len(f) <= 1 + SuffixMaxLetters
    /\ f[1] = "-"
    /\ \A i \in 2..Len(f) : f[i] \in SuffixLetters

SuffixMatch(f) ==
    \/ SuffixCore(f)
    \/ f # <<>> /\ Last(f) = "\n" /\ SuffixCore(Front(f))

(***************************************************************************)
(* transform_wordforms(headword, forms)                                    *)
(***************************************************************************)
RECURSIVE TransformLoop(_, _, _)
TransformLoop(headword, forms, out) ==
    IF forms = <<>> THEN out
    ELSE LET f == Head(forms)
         IN  TransformLoop(headword, Tail(forms),
                 IF SuffixMatch(f)
                 THEN Append(out, headword \o Tail(f))
                 ELSE Append(out, f))

TransformWordforms(headword, forms) == TransformLoop(headword, forms, <<>>)

(***************************************************************************)
(* clean_links(a_tags): a_tags is given by the raw text of each tag.       *)
(***************************************************************************)
UNWANTED_TEXTS ==
    { <<".", ".", ".", "v", "i", "s", " ", "m", "e", "r", "e">>,
      <<".", ".", ".", "v", "i", "s", " ", "m", "i", "n", "d", "r", "e">>,
      <<"L", "æ", "s", " ", "m", "e", "r", "e", " ", "o", "m", " ",
        "D", "e", "n", " ", "D", "a", "n", "s", "k", "e", " ",
        "B", "e", "g", "r", "e", "b", "s", "o", "r", "d", "b", "o", "g">> }

\* clean_links with the digits removed before the boilerplate test
RECURSIVE CleanLoopSubFirst(_, _)
CleanLoopSubFirst(a_tags, out) ==
    IF a_tags = <<>> THEN out
    ELSE LET sub == DigitsTrailSub(GetTextStrip(Head(a_tags)))
         IN  CleanLoopSubFirst(Tail(a_tags),
                 IF sub \in UNWANTED_TEXTS THEN out
                 ELSE IF sub # <<>> THEN Append(out, sub)
                 ELSE out)

RECURSIVE CleanLoop(_, _)
CleanLoop(a_tags, out) ==
    IF a_tags = <<>> THEN out
    ELSE LET txt == GetTextStrip(Head(a_tags))
             sub == DigitsTrailSub(txt)
         IN  CleanLoop(Tail(a_tags),
                 IF txt \in UNWANTED_TEXTS THEN out
                 ELSE IF sub # <<>> THEN Append(out, sub)
                 ELSE out)

CleanLinks(a_tags) == CleanLoop(a_tags, <<>>)

(***************************************************************************)
(* tag.get_text(sep, strip=True): the strings below the tag, each          *)
(* stripped, the empty ones left out, joined by sep.  A tag is given by    *)
(* the sequence of its strings.                                            *)
(***************************************************************************)
RECURSIVE JoinStripped(_, _, _)
JoinStripped(sep, strings, acc) ==
    IF strings = <<>> THEN acc
    ELSE LET piece == Strip(Head(strings))
         IN  JoinStripped(sep, Tail(strings),
                 IF piece = <<>> THEN acc
                 ELSE IF acc = None THEN Some(piece)
                 ELSE Some(acc.val \o sep \o piece))

GetText(sep, strings) ==
    LET joined == JoinStripped(sep, strings, None)
    IN  IF joined = None THEN <<>> ELSE joined.val

EndsWith(s, suffix) ==
    /\ Len(s) >= Len(suffix)
    /\ SubSeq(s, Len(s) - Len(suffix) + 1, Len(s)) = suffix

(***************************************************************************)
(* parse_udtale(soup, fn).  The pronunciation part of a document is        *)
(*   udt : None, or Some of the div#id-udt container, which is             *)
(*   [tm : None, or Some of the children of its span.tekstmedium]          *)
(* and a child is a string (tag = FALSE) or a tag with its classes, the    *)
(* strings below it and the href of each <a> below it.                     *)
(***************************************************************************)
Mp3 == <<".", "m", "p", "3">>

\* node.select_one('a[href$=".mp3"]') and its href
RECURSIVE FirstMp3(_)
FirstMp3(hrefs) ==
    IF hrefs = <<>> THEN None
    ELSE IF EndsWith(Head(hrefs), Mp3) THEN Some(Head(hrefs))
    ELSE FirstMp3(Tail(hrefs))

\* the scan without the stop at another transcription node
RECURSIVE UdtaleLabelNoStop(_, _)
UdtaleLabelNoStop(children, j) ==
    IF j = 0 THEN None
    ELSE LET prev == children[j]
         IN  IF prev.tag /\ "diskret" \in prev.cls
             THEN Some(GetText(<<" ">>, prev.strings))
             ELSE UdtaleLabelNoStop(children, j - 1)

\* the scan stopped by a text node as well
RECURSIVE UdtaleLabelStopAtText(_, _)
UdtaleLabelStopAtText(children, j) ==
    IF j = 0 THEN None
    ELSE LET prev == children[j]
         IN  IF ~prev.tag THEN None
             ELSE IF "diskret" \in prev.cls
                  THEN Some(GetText(<<" ">>, prev.strings))
             ELSE IF "lydskrift" \in prev.cls THEN None
             ELSE UdtaleLabelStopAtText(children, j - 1)

\* the backward scan of lines 99-108, from children[j] down to children[1]
RECURSIVE UdtaleLabel(_, _)
UdtaleLabel(children, j) ==
    IF j = 0 THEN None
    ELSE LET prev == children[j]
         IN  IF ~prev.tag THEN UdtaleLabel(children, j - 1)
             ELSE IF "diskret" \in prev.cls
                  THEN Some(GetText(<<" ">>, prev.strings))
             ELSE IF "lydskrift" \in prev.cls THEN None
             ELSE UdtaleLabel(children, j - 1)

\* the loop with a record for every label node too
RECURSIVE UdtaleLoopLabelsToo(_, _, _)
UdtaleLoopLabelsToo(children, idx, out) ==
    IF idx > Len(children) THEN out
    ELSE LET node == children[idx]
         IN  IF ~(node.tag /\ node.cls \cap {"lydskrift", "diskret"} # {})
             THEN UdtaleLoopLabelsToo(children, idx + 1, out)
             ELSE UdtaleLoopLabelsToo(children, idx + 1,
                      Append(out, [ipa   |-> GetText(<<" ">>, node.strings),
                                   audio |-> FirstMp3(node.hrefs),
                                   label |-> UdtaleLabel(children, idx - 1)]))

RECURSIVE UdtaleLoop(_, _, _)
UdtaleLoop(children, idx, out) ==
    IF idx > Len(children) THEN out
    ELSE LET node == children[idx]
         IN  IF ~(node.tag /\ "lydskrift" \in node.cls)
             THEN UdtaleLoop(children, idx + 1, out)
             ELSE UdtaleLoop(children, idx + 1,
                      Append(out, [ipa   |-> GetText(<<" ">>, node.strings),
                                   audio |-> FirstMp3(node.hrefs),
                                   label |-> UdtaleLabel(children, idx - 1)]))

ParseUdtale(soup) ==
    IF soup.udt = None THEN <<>>
    ELSE IF soup.udt.val.tm = None THEN <<>>
    ELSE UdtaleLoop(soup.udt.val.tm.val, 1, <<>>)

(***************************************************************************)
(* An exception that leaves a function, or its return value.               *)
(***************************************************************************)
Raise == [raised |-> TRUE, exc |-> "AttributeError"]
Ret(v) == [raised |-> FALSE, val |-> v]

(***************************************************************************)
(* parse_wordforms(soup).  The inflection part of a document is            *)
(*   boj : None, or Some of the span.stempel "Bøjning", which is           *)
(*   [sib : None, or Some of the strings of its next sibling span]         *)
(***************************************************************************)
\* text.split(",")
RECURSIVE SplitComma(_, _, _)
SplitComma(text, cur, out) ==
    IF text = <<>> THEN Append(out, cur)
    ELSE IF Head(text) = "," THEN SplitComma(Tail(text), <<>>, Append(out, cur))
    ELSE SplitComma(Tail(text), Append(cur, Head(text)), out)

RECURSIVE StripNonEmpty(_)
StripNonEmpty(pieces) ==
    IF pieces = <<>> THEN <<>>
    ELSE LET f == Strip(Head(pieces))
         IN  IF f # <<>> THEN <<f>> \o StripNonEmpty(Tail(pieces))
             ELSE StripNonEmpty(Tail(pieces))

ParseWordforms(soup) ==
    IF soup.boj = None THEN <<>>
    ELSE LET sib == soup.boj.val.sib
             text == IF sib # None THEN GetText(<<>>, sib.val) ELSE <<>>
         IN  StripNonEmpty(SplitComma(text, <<>>, <<>>))

(***************************************************************************)
(* parse_etymology(soup).  The origin part of a document is                *)
(*   opr : None, or Some of the span.stempel "Oprindelse", which is        *)
(*   [span : None, or Some of the contents of its next sibling             *)
(*           span.tekstmedium]                                             *)
(***************************************************************************)
\* str.strip(chars)
RECURSIVE LStripChars(_, _)
LStripChars(s, chars) ==
    IF s # <<>> /\ Head(s) \in chars THEN LStripChars(Tail(s), chars) ELSE s

RECURSIVE RStripChars(_, _)
RStripChars(s, chars) ==
    IF s # <<>> /\ Last(s) \in chars THEN RStripChars(Front(s), chars) ELSE s

StripChars(s, chars) == RStripChars(LStripChars(s, chars), chars)

RECURSIVE AllStrings(_)
AllStrings(nodes) ==
    IF nodes = <<>> THEN <<>> ELSE Head(nodes).strings \o AllStrings(Tail(nodes))

IsFormReference(node) ==
    /\ node.name \in {"span", "a"}
    /\ ("ordform" \in node.cls \/ node.name = "a")

\* the loop that keeps the description after a segment
RECURSIVE EtymologyLoopNoReset(_, _, _)
EtymologyLoopNoReset(contents, segments, desc) ==
    IF contents = <<>> THEN segments
    ELSE LET node == Head(contents)
         IN  IF ~node.tag
             THEN EtymologyLoopNoReset(Tail(contents), segments, desc \o node.strings[1])
             ELSE IF IsFormReference(node)
             THEN EtymologyLoopNoReset(Tail(contents),
                      Append(segments,
                             [form |-> GetText(<<>>, node.strings),
                              description |-> StripChars(desc, {" ", ","})]),
                      desc)
             ELSE IF "dividerDot" \in node.cls
             THEN EtymologyLoopNoReset(Tail(contents), segments, desc)
             ELSE EtymologyLoopNoReset(Tail(contents), segments,
                      desc \o GetText(<<>>, node.strings))

RECURSIVE EtymologyLoop(_, _, _)
EtymologyLoop(contents, segments, desc) ==
    IF contents = <<>> THEN segments
    ELSE LET node == Head(contents)
         IN  IF ~node.tag
             THEN EtymologyLoop(Tail(contents), segments, desc \o node.strings[1])
             ELSE IF IsFormReference(node)
             THEN EtymologyLoop(Tail(contents),
                      Append(segments,
                             [form |-> GetText(<<>>, node.strings),
                              description |-> StripChars(desc, {" ", ","})]),
                      <<>>)
             ELSE IF "dividerDot" \in node.cls
             THEN EtymologyLoop(Tail(contents), segments, desc)
             ELSE EtymologyLoop(Tail(contents), segments,
                      desc \o GetText(<<>>, node.strings))

ParseEtymology(soup) ==
    IF soup.opr = None THEN None
    ELSE IF soup.opr.val.span = None THEN None
    ELSE LET contents == soup.opr.val.span.val
         IN  Some([raw |-> GetText(<<" ">>, AllStrings(contents)),
                   segments |-> EtymologyLoop(contents, <<>>, <<>>)])

(***************************************************************************)
(* parse_orddannelser(soup).  The word-formation part of a document is     *)
(*   ord : None, or Some of the div.definitionBox tags below               *)
(*         #content-orddannelser, each                                     *)
(*   [stempel : None, or Some of the strings of its span.stempel,          *)
(*    inline  : None, or Some of the children of its span.inlineList]      *)
(* A Python dict is a sequence of [key, val] records in insertion order.   *)
(***************************************************************************)
\* the assignment that keeps the value a key already has
RECURSIVE DictSetDefault(_, _, _)
DictSetDefault(d, key, val) ==
    IF d = <<>> THEN << [key |-> key, val |-> val] >>
    ELSE IF Head(d).key = key THEN d
    ELSE <<Head(d)>> \o DictSetDefault(Tail(d), key, val)

RECURSIVE DictSet(_, _, _)
DictSet(d, key, val) ==
    IF d = <<>> THEN << [key |-> key, val |-> val] >>
    ELSE IF Head(d).key = key THEN << [key |-> key, val |-> val] >> \o Tail(d)
    ELSE <<Head(d)>> \o DictSet(Tail(d), key, val)

\* the strings that directly follow children[i], concatenated (lines 55-59)
RECURSIVE TailText(_, _)
TailText(children, i) ==
    IF i > Len(children) \/ children[i].tag THEN <<>>
    ELSE children[i].strings[1] \o TailText(children, i + 1)

RECURSIVE OrdItems(_, _, _)
OrdItems(children, i, items) ==
    IF i > Len(children) THEN items
    ELSE LET child == children[i]
         IN  IF child.tag /\ child.name = "a"
             THEN LET form == GetText(<<>>, child.strings)
                      tail == Strip(TailText(children, i + 1))
                  IN  OrdItems(children, i + 1,
                          IF tail # <<>> THEN Append(items, form \o <<" ">> \o tail)
                          ELSE Append(items, form))
             ELSE OrdItems(children, i + 1, items)

RECURSIVE OrdLoop(_, _)
OrdLoop(boxes, result) ==
    IF boxes = <<>> THEN Ret(result)
    ELSE LET box == Head(boxes)
         IN  IF box.stempel = None THEN Raise
             ELSE LET cat == GetText(<<>>, box.stempel.val)
                      items == IF box.inline # None
                               THEN OrdItems(box.inline.val, 1, <<>>)
                               ELSE <<>>
                  IN  OrdLoop(Tail(boxes), DictSet(result, cat, items))

ParseOrddannelser(soup) ==
    IF soup.ord = None THEN Ret(<<>>)
    ELSE OrdLoop(soup.ord.val, <<>>)

(***************************************************************************)
(* parse_definitions(soup, fn).  The definitions part of a document is     *)
(*   bet : None, or Some of the children of #content-betydninger, each a   *)
(*         string (kind "string"), a div.definitionNumber (kind "num",     *)
(*         with its strings), a tag with class definitionIndent (kind      *)
(*         "indent") or another tag (kind "other").                        *)
(* An indent block is                                                      *)
(*   [def   : None, or Some of the strings of its span.definition,         *)
(*    gramm : None, or Some of [inline : None or the strings of the        *)
(*            span.inlineList, strings : the strings of the grammar box],  *)
(*    onym, rel : None, or Some of the raw texts of the <a> tags,          *)
(*    cites : its div.citat-box tags, each [citat, kilde], None or Some of *)
(*            the strings of span.citat and span.kilde]                    *)
(* The value returned carries the lines printed (log).                     *)
(***************************************************************************)
BetString == [kind |-> "string"]
BetOther == [kind |-> "other"]
BetNum(strings) == [kind |-> "num", strings |-> strings]
BetIndent(block) == [kind |-> "indent", block |-> block]

\* lines 156-160: the first following sibling with class definitionIndent,
\* as its index, or 0
RECURSIVE NextIndent(_, _)
NextIndent(children, i) ==
    IF i > Len(children) THEN 0
    ELSE IF children[i].kind = "indent" THEN i
    ELSE NextIndent(children, i + 1)

\* lines 180-188
RECURSIVE DefExamples(_, _)
DefExamples(cites, examples) ==
    IF cites = <<>> THEN Ret(examples)
    ELSE LET cite == Head(cites)
         IN  IF cite.citat = None THEN Raise
             ELSE DefExamples(Tail(cites),
                      Append(examples,
                             [text |-> GetText(<<" ">>, cite.citat.val),
                              source |-> IF cite.kilde # None
                                         THEN Some(GetText(<<>>, cite.kilde.val))
                                         ELSE None]))

GrammarText(gramm) ==
    IF gramm.inline # None THEN GetText(<<" ">>, gramm.inline.val)
    ELSE GetText(<<" ">>, gramm.strings)

\* lines 164-179: the record before its examples are filled in
DefRecord(num, indent) ==
    LET base == [number |-> num,
                 definition |-> IF indent.def # None
                                THEN Some(GetText(<<" ">>, indent.def.val))
                                ELSE None,
                 grammar |-> IF indent.gramm # None
                             THEN Some(GrammarText(indent.gramm.val))
                             ELSE None,
                 examples |-> <<>>]
        sa == IF indent.onym # None
              THEN [see_also |-> CleanLinks(indent.onym.val)] ELSE <<>>
        rel == IF indent.rel # None
               THEN [related |-> CleanLinks(indent.rel.val)] ELSE <<>>
    IN  base @@ sa @@ rel

RECURSIVE DefinitionsLoop(_, _, _, _, _)
DefinitionsLoop(children, fn, i, out, log) ==
    IF i > Len(children) THEN [raised |-> FALSE, val |-> out, log |-> log]
    ELSE IF children[i].kind # "num"
    THEN DefinitionsLoop(children, fn, i + 1, out, log)
    ELSE LET num == GetText(<<>>, children[i].strings)
             at == NextIndent(children, i + 1)
         IN  IF at = 0
             THEN DefinitionsLoop(children, fn, i + 1, out,
                      Append(log, [kind |-> "Warning", fn |-> fn, sense |-> num]))
             ELSE LET indent == children[at].block
                      examples == DefExamples(indent.cites, <<>>)
                  IN  IF examples.raised
                      THEN [raised |-> TRUE, val |-> out, log |-> log]
                      ELSE DefinitionsLoop(children, fn, i + 1,
                               Append(out, [DefRecord(num, indent)
                                               EXCEPT !.examples = examples.val]),
                               log)

ParseDefinitions(soup, fn) ==
    IF soup.bet = None THEN [raised |-> FALSE, val |-> <<>>, log |-> <<>>]
    ELSE DefinitionsLoop(soup.bet.val, fn, 1, <<>>, <<>>)

(***************************************************************************)
(* parse_fixed_expressions(soup).  The fixed-expressions part of a         *)
(* document is                                                             *)
(*   fu : None, or Some of the children of #content-faste-udtryk (below    *)
(*        div.artikel), each a string (tag = FALSE) or a tag               *)
(*        [name, id, cls, match : None or Some of the strings of its       *)
(*         span.match, boxes : its div.definitionBox children]             *)
(* and a box is                                                            *)
(*   [cls, id, strings : the strings below it, links : the raw texts of    *)
(*    its <a> tags, inline, stempel, tekstnormal : None or Some of the     *)
(*    strings of span.inlineList, span.stempel, span.tekstnormal,          *)
(*    cite : None or Some of its div.citat-box, [citat, kilde]]            *)
(***************************************************************************)
FuString ==
    [tag |-> FALSE, name |-> "", id |-> <<>>, cls |-> {}, match |-> None,
     boxes |-> <<>>]
FuTag(name, id, cls, match, boxes) ==
    [tag |-> TRUE, name |-> name, id |-> id, cls |-> cls, match |-> match,
     boxes |-> boxes]

StartsWith(s, prefix) ==
    /\ Len(s) >= Len(prefix)
    /\ SubSeq(s, 1, Len(prefix)) = prefix

UdtrykPrefix == <<"u", "d", "t", "r", "y", "k", "-">>
BetydningInfix == <<"-", "b", "e", "t", "y", "d", "n", "i", "n", "g">>
Sprogbrug == <<"S", "P", "R", "O", "G", "B", "R", "U", "G">>

\* re.compile(r"^udtryk-\d+") on the id of a div
IsUdtryk(node) ==
    /\ node.tag
    /\ node.name = "div"
    /\ StartsWith(node.id, UdtrykPrefix)
    /\ Len(node.id) > Len(UdtrykPrefix)
    /\ node.id[Len(UdtrykPrefix) + 1] \in Digits

\* the walk ended only by a container that has a span.match
EndsWalkAtExpression(node) == IsUdtryk(node) /\ node.match # None

\* the walk that nothing ends but the end of the siblings
EndsWalkNever(node) == FALSE

\* line 209
EndsWalk(node) ==
    node.tag /\ node.name = "div" /\ StartsWith(node.id, UdtrykPrefix)

\* lines 215-259: the detail records of one box, or the exception
BoxDetails(box, ud_id) ==
    IF ud_id # <<>> /\ StartsWith(box.id, ud_id \o BetydningInfix)
    THEN Ret(<< [type |-> "definition", text |-> GetText(<<" ">>, box.strings)] >>)
    ELSE IF "onym" \in box.cls
    THEN Ret(<< [type |-> "see_also", items |-> CleanLinks(box.links)] >>)
    ELSE IF "rel-begreber" \in box.cls
    THEN Ret(<< [type |-> "related", items |-> CleanLinks(box.links)] >>)
    ELSE IF "grammatik" \in box.cls
    THEN Ret(<< [type |-> "grammar",
                 text |-> IF box.inline # None
                          THEN GetText(<<" ">>, box.inline.val)
                          ELSE GetText(<<" ">>, box.strings)] >>)
    ELSE IF box.stempel # None /\ GetText(<<>>, box.stempel.val) = Sprogbrug
    THEN IF box.tekstnormal # None
         THEN Ret(<< [type |-> "usage",
                      text |-> GetText(<<>>, box.tekstnormal.val)] >>)
         ELSE Ret(<<>>)
    ELSE IF box.cite # None
    THEN IF box.cite.val.citat = None THEN Raise
         ELSE Ret(<< [type |-> "example",
                      text |-> GetText(<<" ">>, box.cite.val.citat.val),
                      source |-> IF box.cite.val.kilde # None
                                 THEN Some(GetText(<<>>, box.cite.val.kilde.val))
                                 ELSE None] >>)
    ELSE Ret(<<>>)

\* the loop with two records for each box
RECURSIVE BoxesLoopTwice(_, _, _)
BoxesLoopTwice(boxes, ud_id, details) ==
    IF boxes = <<>> THEN Ret(details)
    ELSE LET got == BoxDetails(Head(boxes), ud_id)
         IN  IF got.raised THEN Raise
             ELSE BoxesLoopTwice(Tail(boxes), ud_id, details \o got.val \o got.val)

\* the loop with the source of an example left out when there is none
RECURSIVE BoxesLoopNoNullSource(_, _, _)
BoxesLoopNoNullSource(boxes, ud_id, details) ==
    IF boxes = <<>> THEN Ret(details)
    ELSE LET got == BoxDetails(Head(boxes), ud_id)
             Shorter(d) == IF d.type = "example" /\ d.source = None
                           THEN [type |-> d.type, text |-> d.text] ELSE d
         IN  IF got.raised THEN Raise
             ELSE BoxesLoopNoNullSource(Tail(boxes), ud_id,
                      details \o [n \in 1..Len(got.val) |-> Shorter(got.val[n])])

RECURSIVE BoxesLoop(_, _, _)
BoxesLoop(boxes, ud_id, details) ==
    IF boxes = <<>> THEN Ret(details)
    ELSE LET got == BoxDetails(Head(boxes), ud_id)
         IN  IF got.raised THEN Raise
             ELSE BoxesLoop(Tail(boxes), ud_id, details \o got.val)

\* lines 206-260: the walk over the siblings after the expression container
RECURSIVE SiblingWalk(_, _, _, _)
SiblingWalk(children, j, ud_id, details) ==
    IF j > Len(children) THEN Ret(details)
    ELSE LET node == children[j]
         IN  IF ~node.tag THEN SiblingWalk(children, j + 1, ud_id, details)
             ELSE IF EndsWalk(node) THEN Ret(details)
             ELSE IF "definitionIndent" \in node.cls
             THEN LET got == BoxesLoop(node.boxes, ud_id, details)
                  IN  IF got.raised THEN Raise
                      ELSE SiblingWalk(children, j + 1, ud_id, got.val)
             ELSE SiblingWalk(children, j + 1, ud_id, details)

RECURSIVE ExpressionsLoop(_, _, _)
ExpressionsLoop(children, i, out) ==
    IF i > Len(children) THEN Ret(out)
    ELSE LET ud == children[i]
         IN  IF ~IsUdtryk(ud) \/ ud.match = None
             THEN ExpressionsLoop(children, i + 1, out)
             ELSE LET walk == SiblingWalk(children, i + 1, ud.id, <<>>)
                  IN  IF walk.raised THEN Raise
                      ELSE ExpressionsLoop(children, i + 1,
                               Append(out,
                                      [expression |-> GetText(<<>>, ud.match.val),
                                       details |-> walk.val]))

ParseFixedExpressions(soup) ==
    IF soup.art = None \/ soup.fu = None THEN Ret(<<>>)
    ELSE ExpressionsLoop(soup.fu.val, 1, <<>>)

(***************************************************************************)
(* parse_entry(path).  A document (soup) is                                *)
(*   art : None, or Some of div.artikel,                                   *)
(*         [banner : None or Some of the strings of                        *)
(*                   div.definitionBoxTop span.match,                      *)
(*          pos    : None or Some of the strings of                        *)
(*                   div.definitionBoxTop span.tekstmedium]                *)
(* with the parts udt, boj, opr, bet, fu, ord described above.  The value  *)
(* returned is None or Some of the Entry, with the lines printed (log); it *)
(* raises where the code calls a method of None.                           *)
(***************************************************************************)
\* the filter that removes nothing
WithoutNothing(forms, raw_head) == forms

RECURSIVE Without(_, _)
Without(forms, raw_head) ==
    IF forms = <<>> THEN <<>>
    ELSE IF Head(forms) # raw_head THEN <<Head(forms)>> \o Without(Tail(forms), raw_head)
    ELSE Without(Tail(forms), raw_head)

\* line 273
Headword(raw_head) == Strip(DigitsTrailSub(Strip(raw_head)))

UdtaleLog(soup, fn) ==
    IF soup.udt = None THEN << [kind |-> "Note", fn |-> fn, sense |-> <<>>] >>
    ELSE <<>>

\* lines 281-291 with the word-formation key left out when there is no block
EntryWithoutEmptyOrd(fn, headword, pos, udtale, forms, etymology, definitions, fixed, ord) ==
    IF ord # <<>>
    THEN [file |-> fn, headword |-> headword, pos |-> pos, udtale |-> udtale,
          wordforms |-> forms, etymology |-> etymology,
          definitions |-> definitions, fixed_expressions |-> fixed,
          orddannelser |-> ord]
    ELSE [file |-> fn, headword |-> headword, pos |-> pos, udtale |-> udtale,
          wordforms |-> forms, etymology |-> etymology,
          definitions |-> definitions, fixed_expressions |-> fixed]

\* lines 281-291, after the extractors have returned
Entry(fn, headword, pos, udtale, forms, etymology, definitions, fixed, ord) ==
    [file |-> fn,
     headword |-> headword,
     pos |-> pos,
     udtale |-> udtale,
     wordforms |-> forms,
     etymology |-> etymology,
     definitions |-> definitions,
     fixed_expressions |-> fixed,
     orddannelser |-> ord]

ParseEntry(fn, soup) ==
    IF soup.art = None THEN [raised |-> FALSE, val |-> None, log |-> <<>>]
    ELSE IF soup.art.val.banner = None
    THEN [raised |-> TRUE, val |-> None, log |-> <<>>]
    ELSE
    LET raw_head == GetText(<<>>, soup.art.val.banner.val)
        headword == Headword(raw_head)
        pos == IF soup.art.val.pos # None
               THEN Some(GetText(<<>>, soup.art.val.pos.val)) ELSE None
        raw_forms == Without(ParseWordforms(soup), raw_head)
        forms == TransformWordforms(headword, raw_forms)
        udtale == ParseUdtale(soup)
        log1 == UdtaleLog(soup, fn)
        etymology == ParseEtymology(soup)
        definitions == ParseDefinitions(soup, fn)
        log2 == log1 \o definitions.log
        fixed == ParseFixedExpressions(soup)
        ord == ParseOrddannelser(soup)
    IN  IF definitions.raised \/ fixed.raised \/ ord.raised
        THEN [raised |-> TRUE, val |-> None,
              log |-> log2]
        ELSE [raised |-> FALSE,
              val |-> Some(Entry(fn, headword, pos, udtale, forms, etymology,
                                 definitions.val, fixed.val, ord.val)),
              log |-> log2]

(***************************************************************************)
(* main().  File names are texts; sorted() orders them by code point.      *)
(***************************************************************************)
DotHtml == <<".", "h", "t", "m", "l">>

\* ord(c) of the characters that the file names of the model use
CodePoint(c) ==
    CASE c = "." -> 46
      [] c = "B" -> 66
      [] c = "a" -> 97
      [] c = "b" -> 98
      [] c = "h" -> 104
      [] c = "l" -> 108
      [] c = "m" -> 109
      [] c = "t" -> 116

\* a < b for Python strings
RECURSIVE StrLess(_, _)
StrLess(a, b) ==
    IF b = <<>> THEN FALSE
    ELSE IF a = <<>> THEN TRUE
    ELSE IF Head(a) # Head(b) THEN CodePoint(Head(a)) < CodePoint(Head(b))
    ELSE StrLess(Tail(a), Tail(b))

\* os.listdir gives the names in any order: the list as it comes
RECURSIVE Unsorted(_)
Unsorted(names) ==
    IF names = {} THEN <<>>
    ELSE LET m == CHOOSE x \in names : \A y \in names \ {x} : StrLess(y, x)
         IN  <<m>> \o Unsorted(names \ {m})

\* sorted(names) of distinct names
RECURSIVE Sorted(_)
Sorted(names) ==
    IF names = {} THEN <<>>
    ELSE LET m == CHOOSE x \in names : \A y \in names \ {x} : StrLess(x, y)
         IN  <<m>> \o Sorted(names \ {m})

\* the truth value of what parse_entry returned: None, or a dict
Truthy(val) == val # None /\ DOMAIN val.val # {}

(***************************************************************************)
(* Inputs.                                                                 *)
(***************************************************************************)
SeqsUpTo(S, n) == UNION {[1..k -> S] : k \in 0..n}

LetterCycle == <<"e", "t", "æ", "N", "ø", "s", "Å", "r", "a", "Z", "å", "k">>

LettersOfLen(n) == [i \in 1..n |-> LetterCycle[((i - 1) % Len(LetterCycle)) + 1]]

\* Word forms as parse_wordforms yields them: stripped, not empty, no comma.
WfFormTexts ==
    { <<"-">> \o LettersOfLen(n) : n \in 0..MaxSuffixLetters }
    \cup { <<"-", "e", "1">>, <<"-", "e", " ", "t">>, <<"-", "-", "e", "t">>,
           <<"-", "e", "n", "e">>, <<"h", "u", "s", "e">>, <<"e", "t">>,
           <<"-", "é">>, <<"-", "e", "\n", "t">> }

WfHeadwords == { <<"h", "u", "s">>, <<"a">>, <<>> }

ClTexts ==
    { <<".", ".", ".", "v", "i", "s", " ", "m", "e", "r", "e">>,
      <<" ", ".", ".", ".", "v", "i", "s", " ", "m", "i", "n", "d", "r", "e", "\n">>,
      <<".", ".", ".", "v", "i", "s", " ", "m", "e", "r", "e", "1">>,
      <<"b", "e", "g", "r", "e", "b", "1", "2">>,
      <<"o", "r", "d">>,
      <<" ", "o", "r", "d", " ">>,
      <<"1", "2">>,
      <<>>,
      <<"a", "1", "b">>,
      <<"a", "1", " ", "2">> }

\* A child node: a string (NavigableString), or a tag with its name, its
\* classes, the strings below it and the href of each <a> below it.
StringNode(text) ==
    [tag |-> FALSE, name |-> "", cls |-> {}, strings |-> <<text>>, hrefs |-> <<>>]
TagNode(name, cls, strings, hrefs) ==
    [tag |-> TRUE, name |-> name, cls |-> cls, strings |-> strings, hrefs |-> hrefs]

TxtNavneord == <<"n", "a", "v", "n", "e", "o", "r", "d">>
TxtVerbum == <<"v", "e", "r", "b", "u", "m">>
TxtHus == <<"[", "h", "u", "s", "]">>
TxtHuus == <<"[", "h", "u", "ː", "s", "]">>
HrefMp3 == <<"h", "u", "s", ".", "m", "p", "3">>
HrefOgg == <<"h", "u", "s", ".", "o", "g", "g">>

UdLabelNavneord == TagNode("span", {"diskret"}, <<TxtNavneord>>, <<>>)
UdTransHus == TagNode("span", {"lydskrift"}, <<TxtHus>>, <<>>)
UdTransHuus == TagNode("span", {"lydskrift"}, <<TxtHuus>>, <<>>)

UdNodes ==
    { UdLabelNavneord,
      TagNode("span", {"diskret"}, << <<" ">>, TxtVerbum, <<"\n">> >>, <<>>),
      UdTransHus,
      UdTransHuus,
      TagNode("span", {"lydskrift"}, << TxtHus \o <<" ">>, <<" ">> >>, <<HrefOgg, HrefMp3>>),
      TagNode("span", {"lydskrift", "diskret"}, <<TxtHuus>>, <<HrefOgg>>),
      TagNode("span", {"dividerDot"}, << <<".">> >>, <<>>),
      StringNode(<<" ", "e", "l", "l", "e", "r", " ">>) }

UdSoups ==
    { [udt |-> None], [udt |-> Some([tm |-> None])] }
    \cup { [udt |-> Some([tm |-> Some(ch)])] : ch \in SeqsUpTo(UdNodes, MaxUdChildren) }

(***************************************************************************)
(* Documents of the batch.                                                 *)
(***************************************************************************)
W_hus == <<"h", "u", "s">>
W_sb == <<"s", "b", ".">>

\* an indent block with every box, and one with only the definition
BlockFull ==
    [def   |-> Some(<< <<"b", "o", "l", "i", "g">> >>),
     gramm |-> Some([inline |-> None, strings |-> << <<"t", "a", "l">> >>]),
     onym  |-> Some(<< <<"b", "o", "2">>, <<".", ".", ".", "v", "i", "s", " ", "m", "e", "r", "e">> >>),
     rel   |-> Some(<< <<"h", "j", "e", "m">> >>),
     cites |-> << [citat |-> Some(<< <<"e", "t", " ", "h", "u", "s">> >>),
                   kilde |-> Some(<< <<"a", "v", "i", "s">> >>)] >>]

BlockBare ==
    [def |-> Some(<< <<"s", "l", "æ", "g", "t">> >>), gramm |-> None,
     onym |-> None, rel |-> None, cites |-> <<>>]

\* an indent block whose citation box has no span.citat
BlockNoCitat ==
    [BlockBare EXCEPT !.cites = << [citat |-> None, kilde |-> None] >>]

\* The children of the origin text: texts, form references (a span.ordform
\* and a link), a divider decoration and tags of other kinds.
EtNodes ==
    { StringNode(<<"n", "o", "r", "r", "ø", "n", "t", ",", " ">>),
      StringNode(<<" ", ",", " ", "a", "f", " ">>),
      TagNode("span", {"ordform"}, << <<" ", "h", "ú", "s">> >>, <<>>),
      TagNode("a", {}, << <<"h", "u", "s">> >>, <<>>),
      TagNode("span", {"dividerDot"}, << <<"·">> >>, <<>>),
      TagNode("i", {}, << <<" ", "j", "f", ".">>, <<" ">>, <<"t", "y", "s", "k", " ">> >>, <<>>),
      TagNode("span", {"diskret"}, << <<",", "e", "l", ".">> >>, <<>>) }

EtSoups ==
    { [opr |-> None], [opr |-> Some([span |-> None])] }
    \cup { [opr |-> Some([span |-> Some(ch)])] : ch \in SeqsUpTo(EtNodes, MaxEtChildren) }

\* The children of the definitions block: number markers, indent blocks
\* (one of them with a citation box that has no span.citat), strings and
\* other tags.
Num1 == BetNum(<< <<"1">> >>)
Num2 == BetNum(<< <<" ", "2">>, <<".">> >>)

DfNodes ==
    { Num1, Num2, BetIndent(BlockBare), BetIndent(BlockFull),
      BetIndent(BlockNoCitat), BetString, BetOther }

DfSoups ==
    { [bet |-> None] }
    \cup { [bet |-> Some(ch)] : ch \in SeqsUpTo(DfNodes, MaxBetChildren) }

DfFile == <<"a", ".", "h", "t", "m", "l">>

Id_udtryk1 == UdtrykPrefix \o <<"1">>

FuBox(cls, id, strings, cite) ==
    [cls |-> cls, id |-> id, strings |-> strings, links |-> <<>>, inline |-> None,
     stempel |-> None, tekstnormal |-> None, cite |-> cite]

\* The children of the fixed-expressions section: two expression
\* containers, a container without span.match, a div whose id begins with
\* "udtryk-" but has no index, four indent blocks, a text node and another
\* tag.
FuNodes ==
    LET Id_udtryk2 == UdtrykPrefix \o <<"2">>
        Id_udtryk3 == UdtrykPrefix \o <<"3">>
        Id_udtrykX == UdtrykPrefix \o <<"x">>
        FuUd1 == FuTag("div", Id_udtryk1, {}, Some(<< <<"g", "å", " ", "h", "u", "s">> >>), <<>>)
        FuUd2 == FuTag("div", Id_udtryk2, {}, Some(<< <<" ", "i", " ", "h", "u", "s">> >>), <<>>)
        FuUdNoMatch == FuTag("div", Id_udtryk3, {}, None, <<>>)
        FuUdNoIndex == FuTag("div", Id_udtrykX, {}, Some(<< <<"h", "u", "s">> >>), <<>>)
        FuBoxDefinition ==
            FuBox({"definitionBox"}, Id_udtryk1 \o BetydningInfix \o <<"-", "1">>,
                  << <<"o", "v", "e", "r", "s", "e">> >>, None)
        FuBoxGrammar ==
            [FuBox({"definitionBox", "grammatik"}, <<>>, << <<"k", "u", "n">>, <<"p", "l", ".">> >>, None)
                EXCEPT !.inline = Some(<< <<"p", "l", ".">> >>)]
        FuBoxExample ==
            FuBox({"definitionBox"}, <<>>, << <<"d", "e", "t">>, <<"a", "v", "i", "s">> >>,
                  Some([citat |-> Some(<< <<"d", "e", "t">> >>),
                        kilde |-> Some(<< <<"a", "v", "i", "s">> >>)]))
        FuBoxExampleNoSource ==
            FuBox({"definitionBox"}, <<>>, << <<"d", "e", "t">> >>,
                  Some([citat |-> Some(<< <<"d", "e", "t">> >>), kilde |-> None]))
        FuBoxSeeAlso ==
            [FuBox({"definitionBox", "onym"}, <<>>, << <<"b", "o", "2">> >>, None)
                EXCEPT !.links = << <<"b", "o", "2">> >>]
        FuBoxRelated ==
            [FuBox({"definitionBox", "rel-begreber"}, <<>>, << <<"h", "j", "e", "m">> >>, None)
                EXCEPT !.links = << <<"h", "j", "e", "m">>,
                                    <<".", ".", ".", "v", "i", "s", " ", "m", "e", "r", "e">> >>]
        FuBoxUsage ==
            [FuBox({"definitionBox"}, <<>>, << Sprogbrug, <<"s", "p", "ø", "g">> >>, None)
                EXCEPT !.stempel = Some(<<Sprogbrug>>),
                       !.tekstnormal = Some(<< <<"s", "p", "ø", "g">> >>)]
        \* a SPROGBRUG box with no span.tekstnormal, and a box of no known kind
        FuBoxUsageBare ==
            [FuBox({"definitionBox"}, <<>>, <<Sprogbrug>>, None)
                EXCEPT !.stempel = Some(<<Sprogbrug>>)]
        FuBoxPlain == FuBox({"definitionBox"}, <<>>, << <<"n", "o", "t", "e">> >>, None)
        \* a citation box with no span.citat
        FuBoxNoCitat ==
            FuBox({"definitionBox"}, <<>>, <<>>, Some([citat |-> None, kilde |-> None]))
        FuIndentA ==
            FuTag("div", <<>>, {"definitionIndent"}, None,
                  <<FuBoxDefinition, FuBoxGrammar, FuBoxExample>>)
        FuIndentB ==
            FuTag("div", <<>>, {"definitionIndent"}, None,
                  <<FuBoxSeeAlso, FuBoxRelated, FuBoxUsage>>)
        FuIndentC ==
            FuTag("div", <<>>, {"definitionIndent"}, None,
                  <<FuBoxPlain, FuBoxUsageBare, FuBoxExampleNoSource>>)
        FuIndentD ==
            FuTag("div", <<>>, {"definitionIndent"}, None, <<FuBoxNoCitat>>)
    IN  { FuUd1, FuUd2, FuUdNoMatch, FuUdNoIndex, FuIndentA, FuIndentB, FuIndentC,
        FuIndentD, FuString, FuTag("div", <<>>, {}, None, <<>>) }

FxSoups ==
    { [art |-> None, fu |-> Some(<<FuString>>)], [art |-> Some(<<>>), fu |-> None] }
    \cup { [art |-> Some(<<>>), fu |-> Some(ch)] : ch \in SeqsUpTo(FuNodes, MaxFuChildren) }

FuFull ==
    << FuTag("div", Id_udtryk1, {}, Some(<< <<"g", "å", " ", "h", "u", "s">> >>), <<>>),
       FuString,
       FuTag("div", <<>>, {"definitionIndent"}, None,
             << FuBox({"definitionBox"}, Id_udtryk1 \o BetydningInfix \o <<"-", "1">>,
                      << <<"o", "v", "e", "r", "s", "e">> >>, None),
                FuBox({"definitionBox"}, <<>>, << <<"d", "e", "t">> >>,
                      Some([citat |-> Some(<< <<"d", "e", "t">> >>), kilde |-> None])) >>) >>

\* a fixed expression whose citation box has no span.citat
FuNoCitat ==
    << FuTag("div", Id_udtryk1, {}, Some(<< <<"g", "å", " ", "h", "u", "s">> >>), <<>>),
       FuTag("div", <<>>, {"definitionIndent"}, None,
             << FuBox({"definitionBox"}, <<>>, <<>>,
                      Some([citat |-> None, kilde |-> None])) >>) >>

OrdFull ==
    << [stempel |-> Some(<< <<"A", "f", "l">> >>),
        inline  |-> Some(<< TagNode("a", {}, << <<"h", "u", "s", "e">> >>, <<>>),
                            StringNode(<<" ", "v", "b", ".", " ">>),
                            TagNode("a", {}, << <<"h", "u", "s", "l", "i", "g">> >>, <<>>) >>)] >>

\* a category box with no span.stempel
OrdNoLabel == << [stempel |-> None, inline |-> None] >>

\* The category boxes of the word-formation block: two with the label
\* "Afl", two with the label "Sms" (one without inline list), and the box
\* without span.stempel.
OrdBoxes ==
    LET TxtAfl == <<"A", "f", "l">>
        TxtSms == <<"S", "m", "s">>
    IN
    { [stempel |-> Some(<<TxtAfl>>),
       inline  |-> Some(<< TagNode("a", {}, << <<"h", "u", "s", "e">> >>, <<>>),
                           StringNode(<<" ", "v", "b", ".">>),
                           StringNode(<<" ">>),
                           TagNode("a", {}, << <<"h", "u", "s", "l", "i", "g">> >>, <<>>) >>)],
      [stempel |-> Some(<< <<" ">>, TxtAfl >>),
       inline  |-> Some(<< TagNode("a", {}, << <<"h", "u", "s", "e", "r", "e">> >>, <<>>),
                           StringNode(<<" ", " ">>) >>)],
      [stempel |-> Some(<<TxtSms>>), inline |-> None],
      [stempel |-> Some(<<TxtSms>>),
       inline  |-> Some(<< StringNode(<<"s", "e", " ">>),
                           TagNode("a", {}, << <<"h", "u", "s">> >>, <<>>),
                           StringNode(<<" ", "a", "d", "j", ".">>),
                           TagNode("span", {}, << <<"x">> >>, <<>>),
                           StringNode(<<" ", "y">>),
                           TagNode("a", {}, << <<"h", "y", "t", "t", "e">> >>, <<>>) >>)],
      OrdNoLabel[1] }

OdSoups ==
    { [ord |-> None] }
    \cup { [ord |-> Some(boxes)] : boxes \in SeqsUpTo(OrdBoxes, MaxOrdBoxes) }

\* div.artikel with a banner and nothing else
DocMin(banner) ==
    [art |-> Some([banner |-> Some(<<banner>>), pos |-> None]),
     udt |-> None, boj |-> None, opr |-> None, bet |-> None, fu |-> None,
     ord |-> None]

DocNoArt == [DocMin(<<>>) EXCEPT !.art = None]

DocNoBanner == [DocMin(<<>>) EXCEPT !.art = Some([banner |-> None, pos |-> Some(<<W_sb>>)])]

DocFull ==
    [art |-> Some([banner |-> Some(<< <<" ", "h", "u", "s">>, <<"1", "\n">> >>),
                   pos |-> Some(<<W_sb>>)]),
     udt |-> Some([tm |-> Some(<<UdLabelNavneord, UdTransHus>>)]),
     boj |-> Some([sib |-> Some(<< <<"-", "e", "t", ",", " ", "-", "e", ",", ",", "h", "u", "s", "1">> >>)]),
     opr |-> Some([span |-> Some(<< StringNode(<<"n", "o", "r", "r", "ø", "n", "t", ",", " ">>),
                                    TagNode("span", {"ordform"}, << <<"h", "ú", "s">> >>, <<>>) >>)]),
     bet |-> Some(<< BetNum(<< <<"1", ".">> >>), BetString, BetIndent(BlockFull),
                     BetNum(<< <<"2", ".">> >>), BetIndent(BlockBare) >>),
     fu  |-> Some(FuFull),
     ord |-> Some(OrdFull)]

Docs ==
    { DocNoArt,
      DocNoBanner,
      DocFull,
      DocMin(<<"h", "u", "s", "3">>),
      DocMin(<<"1", "2">>),
      DocMin(<<"a", "1", " ", "2">>),
      [DocMin(W_hus) EXCEPT !.udt = Some([tm |-> None])],
      [DocMin(W_hus) EXCEPT !.ord = Some(OrdNoLabel)],
      [DocMin(W_hus) EXCEPT !.bet = Some(<< BetNum(<< <<"1">> >>), BetIndent(BlockNoCitat) >>)],
      [DocMin(W_hus) EXCEPT !.fu = Some(FuNoCitat)],
      [DocMin(W_hus) EXCEPT !.bet = Some(<< BetNum(<< <<"1">> >>), BetIndent(BlockBare),
                                            BetNum(<< <<"2">> >>), BetOther >>)],
      [DocMin(<<"h", "u", "s", "3">>) EXCEPT
          !.boj = Some([sib |-> Some(<< <<" ", "h", "u", "s", " ", ",", "-", "e", " ", ",">>,
                                        <<" ", ",", "h", "u", "s", "3", ",", "-", "e", "r", "n", "e">> >>)])],
      [DocMin(W_hus) EXCEPT !.boj = Some([sib |-> None])] }

HtmlNames ==
    { <<"a", ".", "h", "t", "m", "l">>,
      <<"b", ".", "h", "t", "m", "l">>,
      <<"B", ".", "h", "t", "m", "l">> }

OtherNames ==
    { <<"a", ".", "h", "t", "m">>,
      <<"a", ".", "h", "t", "m", "l", ".", "b">> }

FileNames == HtmlNames \cup OtherNames

(***************************************************************************)
(* The specification of transform_wordforms: any headword and forms, then  *)
(* the call.                                                               *)
(***************************************************************************)
WfIdle == wfHeadword = <<>> /\ wfForms = <<>> /\ wfOut = <<>> /\ wfPc = "idle"
ClIdle == clTexts = <<>> /\ clOut = <<>> /\ clPc = "idle"
UdIdle == udSoup = [udt |-> None] /\ udOut = <<>> /\ udPc = "idle"
DfIdle == dfSoup = [bet |-> None] /\ dfOut = <<>> /\ dfPc = "idle"
FxIdle == fxSoup = [art |-> None, fu |-> None] /\ fxOut = <<>> /\ fxPc = "idle"
EtIdle == etSoup = [opr |-> None] /\ etOut = None /\ etPc = "idle"
OdIdle == odSoup = [ord |-> None] /\ odOut = <<>> /\ odPc = "idle"
ExtractorsIdle == DfIdle /\ FxIdle /\ EtIdle /\ OdIdle
UpIdle ==
    /\ upFs = <<>>
    /\ upBak = <<>>
    /\ upAlt = <<>>
    /\ upListing = <<>>
    /\ upNo = 0
    /\ upUrlNo = 0
    /\ best = [url |-> None, content |-> None, size |-> -1]
    /\ upGot = <<>>
    /\ upAttempt = 0
    /\ upResponses = <<>>
    /\ upReturned = None
    /\ upPc = "idle"
DdIdle == ddEntries = <<>> /\ ddOut = <<>> /\ ddPc = "idle"
TrIdle ==
    /\ trEntries = <<>>
    /\ done = <<>>
    /\ trSaved = None
    /\ trNo = 0
    /\ trDefs = <<>>
    /\ trIdx = 0
    /\ merged = <<>>
    /\ trAttempt = 0
    /\ last_feedback = None
    /\ trOutcome = None
    /\ trPc = "idle"
AuIdle ==
    /\ auList = <<>>
    /\ audio_map = <<>>
    /\ auLocal = {}
    /\ auNo = 0
    /\ auRequests = <<>>
    /\ auSaved = None
    /\ auPc = "idle"
ToolsIdle == UpIdle /\ DdIdle /\ TrIdle /\ AuIdle
MainIdle ==
    /\ dir = {}
    /\ content = <<>>
    /\ listing = <<>>
    /\ fileNo = 0
    /\ entries = <<>>
    /\ skipped_files = <<>>
    /\ stdout = <<>>
    /\ output = None
    /\ pc = "idle"

WfInit ==
    /\ wfHeadword \in WfHeadwords
    /\ wfForms \in SeqsUpTo(WfFormTexts, MaxForms)
    /\ wfOut = <<>>
    /\ wfPc = "call"
    /\ ClIdle
    /\ UdIdle
    /\ MainIdle
    /\ ExtractorsIdle
    /\ ToolsIdle

WfCall ==
    /\ wfPc = "call"
    /\ wfOut' = TransformWordforms(wfHeadword, wfForms)
    /\ wfPc' = "done"
    /\ UNCHANGED <<wfHeadword, wfForms, clVars, udVars, mainVars, extractorVars, toolVars>>

WfNext == WfCall

SpecWordforms == WfInit /\ [][WfNext]_vars

(***************************************************************************)
(* The specification of clean_links: any list of <a> texts, then the call. *)
(***************************************************************************)
ClInit ==
    /\ clTexts \in SeqsUpTo(ClTexts, MaxLinks)
    /\ clOut = <<>>
    /\ clPc = "call"
    /\ WfIdle
    /\ UdIdle
    /\ MainIdle
    /\ ExtractorsIdle
    /\ ToolsIdle

ClCall ==
    /\ clPc = "call"
    /\ clOut' = CleanLinks(clTexts)
    /\ clPc' = "done"
    /\ UNCHANGED <<clTexts, wfVars, udVars, mainVars, extractorVars, toolVars>>

ClNext == ClCall

SpecLinks == ClInit /\ [][ClNext]_vars

(***************************************************************************)
(* The specification of parse_udtale: any pronunciation part, then the     *)
(* call.                                                                   *)
(***************************************************************************)
UdInit ==
    /\ udSoup \in UdSoups
    /\ udOut = <<>>
    /\ udPc = "call"
    /\ WfIdle
    /\ ClIdle
    /\ MainIdle
    /\ ExtractorsIdle
    /\ ToolsIdle

UdCall ==
    /\ udPc = "call"
    /\ udOut' = ParseUdtale(udSoup)
    /\ udPc' = "done"
    /\ UNCHANGED <<udSoup, wfVars, clVars, mainVars, extractorVars, toolVars>>

UdNext == UdCall

SpecUdtale == UdInit /\ [][UdNext]_vars

(***************************************************************************)
(* The specification of parse_definitions: any definitions block, then the *)
(* call.                                                                   *)
(***************************************************************************)
DfInit ==
    /\ dfSoup \in DfSoups
    /\ dfOut = <<>>
    /\ dfPc = "call"
    /\ FxIdle
    /\ EtIdle
    /\ OdIdle
    /\ WfIdle
    /\ ClIdle
    /\ UdIdle
    /\ MainIdle
    /\ ToolsIdle

DfCall ==
    /\ dfPc = "call"
    /\ dfOut' = ParseDefinitions(dfSoup, DfFile)
    /\ dfPc' = "done"
    /\ UNCHANGED <<dfSoup, fxVars, etVars, odVars, wfVars, clVars, udVars, mainVars, toolVars>>

SpecDefinitions == DfInit /\ [][DfCall]_vars

(***************************************************************************)
(* The specification of parse_fixed_expressions: any fixed-expressions     *)
(* section, then the call.                                                 *)
(***************************************************************************)
FxInit ==
    /\ fxSoup \in FxSoups
    /\ fxOut = <<>>
    /\ fxPc = "call"
    /\ DfIdle
    /\ EtIdle
    /\ OdIdle
    /\ WfIdle
    /\ ClIdle
    /\ UdIdle
    /\ MainIdle
    /\ ToolsIdle

FxCall ==
    /\ fxPc = "call"
    /\ fxOut' = ParseFixedExpressions(fxSoup)
    /\ fxPc' = "done"
    /\ UNCHANGED <<fxSoup, dfVars, etVars, odVars, wfVars, clVars, udVars, mainVars, toolVars>>

SpecFixed == FxInit /\ [][FxCall]_vars

(***************************************************************************)
(* The specification of parse_etymology: any origin part, then the call.   *)
(***************************************************************************)
EtInit ==
    /\ etSoup \in EtSoups
    /\ etOut = None
    /\ etPc = "call"
    /\ DfIdle
    /\ FxIdle
    /\ OdIdle
    /\ WfIdle
    /\ ClIdle
    /\ UdIdle
    /\ MainIdle
    /\ ToolsIdle

EtCall ==
    /\ etPc = "call"
    /\ etOut' = ParseEtymology(etSoup)
    /\ etPc' = "done"
    /\ UNCHANGED <<etSoup, dfVars, fxVars, odVars, wfVars, clVars, udVars, mainVars, toolVars>>

SpecEtymology == EtInit /\ [][EtCall]_vars

(***************************************************************************)
(* The specification of parse_orddannelser: any word-formation part, then  *)
(* the call.                                                               *)
(***************************************************************************)
OdInit ==
    /\ odSoup \in OdSoups
    /\ odOut = <<>>
    /\ odPc = "call"
    /\ DfIdle
    /\ FxIdle
    /\ EtIdle
    /\ WfIdle
    /\ ClIdle
    /\ UdIdle
    /\ MainIdle
    /\ ToolsIdle

OdCall ==
    /\ odPc = "call"
    /\ odOut' = ParseOrddannelser(odSoup)
    /\ odPc' = "done"
    /\ UNCHANGED <<odSoup, dfVars, fxVars, etVars, wfVars, clVars, udVars, mainVars, toolVars>>

SpecOrd == OdInit /\ [][OdCall]_vars

(***************************************************************************)
(* The specification of main: any directory of at most MaxFiles files,     *)
(* then the steps of main.  An exception that parse_entry raises is caught *)
(* nowhere: it ends the program (pc = "crashed") with nothing written.     *)
(***************************************************************************)
Init ==
    /\ dir \in {d \in SUBSET FileNames : Cardinality(d) <= MaxFiles}
    /\ content \in {c \in [dir -> Docs] :
                        \A n \in dir : n \in OtherNames => c[n] = DocNoArt}
    /\ listing = <<>>
    /\ fileNo = 0
    /\ entries = <<>>
    /\ skipped_files = <<>>
    /\ stdout = <<>>
    /\ output = None
    /\ pc = "start"
    /\ WfIdle
    /\ ClIdle
    /\ UdIdle
    /\ ExtractorsIdle
    /\ ToolsIdle

\* line 298: sorted(os.listdir(HTML_DIR))
ListDir ==
    /\ pc = "start"
    /\ listing' = Sorted(dir)
    /\ fileNo' = 1
    /\ pc' = "loop"
    /\ UNCHANGED <<dir, content, entries, skipped_files, stdout, output>>

\* lines 299-300: a name that does not end in .html
SkipName ==
    /\ pc = "loop"
    /\ fileNo <= Len(listing)
    /\ ~EndsWith(listing[fileNo], DotHtml)
    /\ fileNo' = fileNo + 1
    /\ UNCHANGED <<dir, content, listing, entries, skipped_files, stdout, output, pc>>

\* lines 301-305: one document
ParseFile ==
    /\ pc = "loop"
    /\ fileNo <= Len(listing)
    /\ EndsWith(listing[fileNo], DotHtml)
    /\ LET fn == listing[fileNo]
           entry == ParseEntry(fn, content[fn])
       IN  /\ stdout' = stdout \o entry.log
           /\ IF entry.raised
              THEN /\ pc' = "crashed"
                   /\ UNCHANGED <<fileNo, entries, skipped_files>>
              ELSE /\ IF Truthy(entry.val)
                      THEN /\ entries' = Append(entries, entry.val.val)
                           /\ UNCHANGED skipped_files
                      ELSE /\ skipped_files' = Append(skipped_files, fn)
                           /\ UNCHANGED entries
                   /\ fileNo' = fileNo + 1
                   /\ UNCHANGED pc
    /\ UNCHANGED <<dir, content, listing, output>>

\* the loop of line 298 is over
EndLoop ==
    /\ pc = "loop"
    /\ fileNo > Len(listing)
    /\ pc' = "report"
    /\ UNCHANGED <<dir, content, listing, fileNo, entries, skipped_files, stdout, output>>

\* lines 307-311
Report ==
    /\ pc = "report"
    /\ stdout' = stdout
                  \o << [kind |-> "Parsed", n |-> Len(entries)] >>
                  \o (IF skipped_files # <<>>
                      THEN << [kind |-> "Skipped", n |-> Len(skipped_files)] >>
                           \o [i \in 1..Len(skipped_files) |->
                                  [kind |-> "-", name |-> skipped_files[i]]]
                      ELSE <<>>)
    /\ pc' = "dump"
    /\ UNCHANGED <<dir, content, listing, fileNo, entries, skipped_files, output>>

\* lines 313-314
Dump ==
    /\ pc = "dump"
    /\ output' = Some(entries)
    /\ pc' = "done"
    /\ UNCHANGED <<dir, content, listing, fileNo, entries, skipped_files, stdout>>

Next ==
    \/ ListDir /\ UNCHANGED <<wfVars, clVars, udVars, extractorVars, toolVars>>
    \/ SkipName /\ UNCHANGED <<wfVars, clVars, udVars, extractorVars, toolVars>>
    \/ ParseFile /\ UNCHANGED <<wfVars, clVars, udVars, extractorVars, toolVars>>
    \/ EndLoop /\ UNCHANGED <<wfVars, clVars, udVars, extractorVars, toolVars>>
    \/ Report /\ UNCHANGED <<wfVars, clVars, udVars, extractorVars, toolVars>>
    \/ Dump /\ UNCHANGED <<wfVars, clVars, udVars, extractorVars, toolVars>>

Spec == Init /\ [][Next]_vars

(***************************************************************************)
(* What the claims about main speak of.                                    *)
(***************************************************************************)
\* listing[i] ends in .html and has been handed to parse_entry
Handled(i) ==
    /\ i \in 1..Len(listing)
    /\ EndsWith(listing[i], DotHtml)
    /\ i < fileNo \/ (pc = "crashed" /\ i = fileNo)

DocAt(i) == content[listing[i]]

EntriesOf(fn) == {k \in 1..Len(entries) : entries[k].file = fn}
SkipsOf(fn) == {k \in 1..Len(skipped_files) : skipped_files[k] = fn}

HasArticle(doc) == doc.art # None
HasBanner(doc) == doc.art # None /\ doc.art.val.banner # None

(***************************************************************************)
(* C1: a document that has the root article container but no banner node   *)
(* is reported as skipped: parse_entry returns the skip signal, main       *)
(* records the file name in skipped_files, no Entry is produced for it and *)
(* no exception escapes.                                                   *)
(***************************************************************************)
C1_MissingBannerSkipped ==
    \A i \in 1..Len(listing) :
        Handled(i) /\ HasArticle(DocAt(i)) /\ ~HasBanner(DocAt(i)) =>
            /\ pc # "crashed"
            /\ SkipsOf(listing[i]) # {}
            /\ EntriesOf(listing[i]) = {}

(***************************************************************************)
(* C2: for a document with no root article container no Entry is produced, *)
(* main puts the file name in skipped_files, and main goes on to process   *)
(* every remaining document (it does not end in an exception).             *)
(***************************************************************************)
C2_MissingArticleSkipped ==
    \A i \in 1..Len(listing) :
        Handled(i) /\ ~HasArticle(DocAt(i)) =>
            /\ EntriesOf(listing[i]) = {}
            /\ SkipsOf(listing[i]) # {}
            /\ pc # "crashed"

(***************************************************************************)
(* C3: the headword of every Entry that parse_entry returns is a non-empty *)
(* text that does not end in a digit, whatever the banner text is.         *)
(***************************************************************************)
C3_HeadwordNonEmptyNoDigit ==
    \A k \in 1..Len(entries) :
        /\ entries[k].headword # <<>>
        /\ Last(entries[k].headword) \notin Digits

(***************************************************************************)
(* C4: for every document that has a root article and a banner, whatever   *)
(* sub-nodes are missing inside its sections, parse_entry returns an Entry *)
(* (no exception leaves it) and main reaches its final report.             *)
(***************************************************************************)
C4_NoExtractorFailureEscapes ==
    \A i \in 1..Len(listing) :
        Handled(i) /\ HasBanner(DocAt(i)) =>
            /\ ~(pc = "crashed" /\ fileNo = i)
            /\ EntriesOf(listing[i]) # {}

(***************************************************************************)
(* C5: when main finishes, every file of the directory whose name ends in  *)
(* .html is accounted for exactly once, as the file of one Entry or as one *)
(* name of skipped_files, and nothing else is; the Entries are in          *)
(* lexicographic order of file name; the totals printed are the lengths of *)
(* the two lists, and the Entries are what was written.                    *)
(***************************************************************************)
C5_Lines(kind) == {j \in 1..Len(stdout) : stdout[j].kind = kind}

C5_BatchAccounting ==
    pc = "done" =>
        /\ \A fn \in dir :
               Cardinality(EntriesOf(fn)) + Cardinality(SkipsOf(fn))
                   = IF EndsWith(fn, DotHtml) THEN 1 ELSE 0
        /\ \A k \in 1..Len(entries) : entries[k].file \in dir
        /\ \A k \in 1..Len(skipped_files) : skipped_files[k] \in dir
        /\ \A k, l \in 1..Len(entries) :
               k < l => StrLess(entries[k].file, entries[l].file)
        /\ Cardinality(C5_Lines("Parsed")) = 1
        /\ \A j \in C5_Lines("Parsed") : stdout[j].n = Len(entries)
        /\ Cardinality(C5_Lines("Skipped")) = IF skipped_files = <<>> THEN 0 ELSE 1
        /\ \A j \in C5_Lines("Skipped") : stdout[j].n = Len(skipped_files)
        /\ Cardinality(C5_Lines("-")) = Len(skipped_files)
        /\ output = Some(entries)

C5_Witness ==
    /\ pc = "done"
    /\ Len(entries) = 2
    /\ Len(skipped_files) = 1
    /\ Cardinality(dir) = 4

(***************************************************************************)
(* C6: every Entry that parse_entry returns has all nine keys whichever    *)
(* sections the document lacks: an absent list section is the empty list,  *)
(* absent etymology and part of speech are None, and an absent             *)
(* word-formation block is the empty mapping.                              *)
(***************************************************************************)
C6_Keys ==
    {"file", "headword", "pos", "udtale", "wordforms", "etymology",
     "definitions", "fixed_expressions", "orddannelser"}

C6_EntryShape ==
    \A k \in 1..Len(entries) :
        LET e == entries[k]
            doc == content[e.file]
        IN  /\ DOMAIN e = C6_Keys
            /\ doc.udt = None => e.udtale = <<>>
            /\ doc.boj = None => e.wordforms = <<>>
            /\ doc.bet = None => e.definitions = <<>>
            /\ doc.fu = None => e.fixed_expressions = <<>>
            /\ doc.opr = None => e.etymology = None
            /\ doc.art.val.pos = None => e.pos = None
            /\ doc.ord = None => e.orddannelser = <<>>

C6_Witness ==
    \E k \in 1..Len(entries) :
        /\ content[entries[k].file] = DocMin(<<"h", "u", "s", "3">>)
        /\ entries[k].headword = W_hus
        /\ entries[k].orddannelser = <<>>
        /\ entries[k].etymology = None

(***************************************************************************)
(* C7: every definition record of an Entry has the same set of keys        *)
(* (number, definition, grammar, see_also, related, examples), also when   *)
(* the indent block has no see-also box or no related-concepts box.        *)
(***************************************************************************)
C7_Keys == {"number", "definition", "grammar", "see_also", "related", "examples"}

C7_DefinitionKeys ==
    \A k \in 1..Len(entries) :
        \A d \in 1..Len(entries[k].definitions) :
            DOMAIN entries[k].definitions[d] = C7_Keys

(***************************************************************************)
(* C8 (as stated): for the children [label("navneord"),                    *)
(* transcription("[hus]"), transcription("[huːs]")] parse_udtale gives two *)
(* records in document order with ipa "hus" and label "navneord", then ipa *)
(* "huːs" and no label.                                                    *)
(***************************************************************************)
C8_Children == <<UdLabelNavneord, UdTransHus, UdTransHuus>>

C8_Case == udPc = "done" /\ udSoup = [udt |-> Some([tm |-> Some(C8_Children)])]

C8_IpaLabel(out) == [i \in 1..Len(out) |-> [ipa |-> out[i].ipa, label |-> out[i].label]]

C8_AsStated ==
    C8_Case =>
        C8_IpaLabel(udOut) =
            << [ipa |-> <<"h", "u", "s">>, label |-> Some(TxtNavneord)],
               [ipa |-> <<"h", "u", "ː", "s">>, label |-> None] >>

(***************************************************************************)
(* C8 (amended): for those children parse_udtale gives two records in      *)
(* document order, the label "navneord" on the first only, and each ipa is *)
(* the node's whole text, brackets included: "[hus]" and "[huːs]"; each    *)
(* record also has the key audio, here None.                               *)
(***************************************************************************)
C8_Amended ==
    C8_Case =>
        udOut = << [ipa |-> TxtHus, audio |-> None, label |-> Some(TxtNavneord)],
                   [ipa |-> TxtHuus, audio |-> None, label |-> None] >>

C8_Witness ==
    /\ C8_Case
    /\ Len(udOut) = 2
    /\ udOut[1].label = Some(TxtNavneord)
    /\ udOut[2].label = None

(***************************************************************************)
(* C9: transform_wordforms returns a list of the same length and order as  *)
(* its input; a form that is a hyphen followed by 1 to 6 letters (a-z,     *)
(* A-Z, æøåÆØÅ) becomes headword + the form without its hyphen, every      *)
(* other form is unchanged; ["-et", "-ene"] with "hus" gives               *)
(* ["huset", "husene"].                                                    *)
(***************************************************************************)
C9_HyphenAndLetters(f) ==
    \E n \in 1..6 :
        /\ Len(f) = n + 1
        /\ f[1] = "-"
        /\ \A i \in 2..(n + 1) : f[i] \in SuffixLetters

C9_Hus == <<"h", "u", "s">>
C9_Forms == << <<"-", "e", "t">>, <<"-", "e", "n", "e">> >>
C9_Expanded == << <<"h", "u", "s", "e", "t">>, <<"h", "u", "s", "e", "n", "e">> >>

C9_TransformWordforms ==
    wfPc = "done" =>
        /\ Len(wfOut) = Len(wfForms)
        /\ \A i \in 1..Len(wfForms) :
               wfOut[i] = IF C9_HyphenAndLetters(wfForms[i])
                          THEN wfHeadword \o SubSeq(wfForms[i], 2, Len(wfForms[i]))
                          ELSE wfForms[i]
        /\ (wfHeadword = C9_Hus /\ wfForms = C9_Forms => wfOut = C9_Expanded)

C9_Witness ==
    /\ wfPc = "done"
    /\ wfHeadword = C9_Hus
    /\ wfForms = C9_Forms
    /\ wfOut = C9_Expanded

(***************************************************************************)
(* C10: clean_links returns, in the original order, exactly the anchor     *)
(* texts that are not in the boilerplate set, each with its trailing digit *)
(* run removed, leaving out those that become empty;                       *)
(* ["...vis mere", "begreb12", "ord"] gives ["begreb", "ord"].             *)
(***************************************************************************)
\* t without the run of digits that ends it: the prefix of t that does not
\* end in a digit and is followed by digits only
C10_WithoutDigitRun(t) ==
    CHOOSE p \in {SubSeq(t, 1, k) : k \in 0..Len(t)} :
        /\ p = <<>> \/ p[Len(p)] \notin Digits
        /\ \A i \in (Len(p) + 1)..Len(t) : t[i] \in Digits

C10_Kept(t) == t \notin UNWANTED_TEXTS /\ C10_WithoutDigitRun(t) # <<>>

C10_Expected(texts) ==
    LET anchor == [i \in 1..Len(texts) |-> GetTextStrip(texts[i])]
        kept == SelectSeq(anchor, C10_Kept)
    IN  [j \in 1..Len(kept) |-> C10_WithoutDigitRun(kept[j])]

C10_Example ==
    << <<".", ".", ".", "v", "i", "s", " ", "m", "e", "r", "e">>,
       <<"b", "e", "g", "r", "e", "b", "1", "2">>,
       <<"o", "r", "d">> >>

C10_ExampleResult == << <<"b", "e", "g", "r", "e", "b">>, <<"o", "r", "d">> >>

C10_CleanLinks ==
    clPc = "done" =>
        /\ clOut = C10_Expected(clTexts)
        /\ (clTexts = C10_Example => clOut = C10_ExampleResult)

C10_Witness ==
    /\ clPc = "done"
    /\ clTexts = C10_Example
    /\ clOut = C10_ExampleResult

(***************************************************************************)
(* Claims about parse_definitions, over SpecDefinitions.                   *)
(***************************************************************************)
DfDone == dfPc = "done" /\ dfSoup.bet # None

DfChildren == dfSoup.bet.val

DfIndices(children) == [i \in 1..Len(children) |-> i]

DfHasIndentAfter(children, i) ==
    \E j \in (i + 1)..Len(children) : children[j].kind = "indent"

\* the number markers that have (wanted) or lack an indent block after them
DfMarkers(children, wanted) ==
    SelectSeq(DfIndices(children),
              LAMBDA i : /\ children[i].kind = "num"
                         /\ DfHasIndentAfter(children, i) = wanted)

DfSenseOf(children, i) == GetText(<<>>, children[i].strings)

\* what C11 says of a call: the senses with an indent block after them are
\* returned in document order, and one warning names each sense without
C11_Dropped(children, out) ==
    LET kept == DfMarkers(children, TRUE)
        missing == DfMarkers(children, FALSE)
    IN  /\ Len(out.val) = Len(kept)
        /\ \A k \in 1..Len(kept) : out.val[k].number = DfSenseOf(children, kept[k])
        /\ out.log = [k \in 1..Len(missing) |->
                        [kind |-> "Warning", fn |-> DfFile,
                         sense |-> DfSenseOf(children, missing[k])]]

\* C11: when a number marker has no indent block anywhere after it,
\* parse_definitions returns, leaves out exactly that sense and logs a
\* warning naming it, and every other sense is returned in document order.
C11_MissingIndentDropsOneSense ==
    (DfDone /\ DfMarkers(DfChildren, FALSE) # <<>>)
        => (~dfOut.raised /\ C11_Dropped(DfChildren, dfOut))

\* C11 for the calls that return: the part of the claim that the code keeps
C11_WhenReturned ==
    (DfDone /\ ~dfOut.raised) => C11_Dropped(DfChildren, dfOut)

\* C11, its example: two markers, the second with no following indent
\* block, give exactly one definition
C11_Example ==
    (dfPc = "done" /\ dfSoup = [bet |-> Some(<<Num1, BetIndent(BlockBare), Num2>>)])
        => (~dfOut.raised /\ Len(dfOut.val) = 1 /\ Len(dfOut.log) = 1)

C11_ExampleReached ==
    dfPc = "done" /\ dfSoup = [bet |-> Some(<<Num1, BetIndent(BlockBare), Num2>>)]

(***************************************************************************)
(* Claims about the labels of parse_udtale, over SpecUdtale.               *)
(***************************************************************************)
UdHasChildren == udSoup.udt # None /\ udSoup.udt.val.tm # None

UdChildren == udSoup.udt.val.tm.val

IsTranscription(node) == node.tag /\ "lydskrift" \in node.cls

IsDiscreteLabel(node) == node.tag /\ "diskret" \in node.cls

\* One forward pass with a pending-label slot: a transcription node takes
\* the slot and clears it, a discrete-label node sets it (a node of both
\* kinds takes what was pending and then sets the slot for the next
\* transcription node), anything else changes nothing.
RECURSIVE C13_Forward(_, _, _, _)
C13_Forward(children, i, slot, labels) ==
    IF i > Len(children) THEN labels
    ELSE LET node == children[i]
             taken == IF IsTranscription(node) THEN Append(labels, slot) ELSE labels
             cleared == IF IsTranscription(node) THEN None ELSE slot
             pending == IF IsDiscreteLabel(node)
                        THEN Some(GetText(<<" ">>, node.strings))
                        ELSE cleared
         IN  C13_Forward(children, i + 1, pending, taken)

\* C13: for every child list of the pronunciation block, the labels that the
\* backward scan of parse_udtale gives the transcription nodes are the
\* labels of one forward pass with a pending-label slot.
C13_BackwardScanIsForwardPass ==
    (udPc = "done" /\ UdHasChildren)
        => [k \in 1..Len(udOut) |-> udOut[k].label]
               = C13_Forward(UdChildren, 1, None, <<>>)

\* a label, a text node, then a transcription node that takes the label
C13_Witness ==
    /\ udPc = "done"
    /\ UdHasChildren
    /\ Len(UdChildren) = 3
    /\ IsDiscreteLabel(UdChildren[1]) /\ ~IsTranscription(UdChildren[1])
    /\ ~UdChildren[2].tag
    /\ IsTranscription(UdChildren[3])
    /\ Len(udOut) = 1
    /\ udOut[1].label = Some(TxtNavneord)

UdIndices(children) == [i \in 1..Len(children) |-> i]

UdTranscriptions(children) ==
    SelectSeq(UdIndices(children), LAMBDA i : IsTranscription(children[i]))

\* the label node at p is the one attached to the transcription node at t:
\* it precedes it with no label or transcription node between them
C14_AttachedAt(children, t, p) ==
    /\ p < t
    /\ IsDiscreteLabel(children[p])
    /\ \A q \in (p + 1)..(t - 1) :
          ~IsDiscreteLabel(children[q]) /\ ~IsTranscription(children[q])

\* C14: parse_udtale emits exactly one record per transcription node among
\* the children of the text container, in document order; a record with a
\* label has it from the label node attached to its transcription node, no
\* label node is attached to two transcription nodes, and a label node with
\* no transcription node after it is attached to nothing and gives no record.
C14_OneRecordPerTranscription ==
    /\ (udPc = "done" /\ ~UdHasChildren) => udOut = <<>>
    /\ (udPc = "done" /\ UdHasChildren) =>
          LET children == UdChildren
              ts == UdTranscriptions(children)
              Labelled(k, p) ==
                  /\ C14_AttachedAt(children, ts[k], p)
                  /\ udOut[k].label = Some(GetText(<<" ">>, children[p].strings))
          IN  /\ Len(udOut) = Len(ts)
              /\ \A k \in 1..Len(ts) :
                    /\ udOut[k].ipa = GetText(<<" ">>, children[ts[k]].strings)
                    /\ udOut[k].label # None
                          => \E p \in 1..Len(children) : Labelled(k, p)
              /\ \A p \in 1..Len(children) :
                    Cardinality({k \in 1..Len(ts) : Labelled(k, p)}) <= 1

\* a transcription node with its label, a second one without, and a label
\* node after them that is attached to nothing
C14_Witness ==
    /\ udPc = "done"
    /\ UdHasChildren
    /\ Len(UdChildren) = 3
    /\ IsDiscreteLabel(UdChildren[1]) /\ ~IsTranscription(UdChildren[1])
    /\ IsTranscription(UdChildren[2])
    /\ IsDiscreteLabel(UdChildren[3]) /\ ~IsTranscription(UdChildren[3])
    /\ Len(udOut) = 1
    /\ udOut[1].label # None

\* the number marker that follows children[i], or the end of the block
RECURSIVE C15_NextMarker(_, _)
C15_NextMarker(children, j) ==
    IF j > Len(children) THEN j
    ELSE IF children[j].kind = "num" THEN j
    ELSE C15_NextMarker(children, j + 1)

\* the first indent block between the marker children[i] and the next
\* marker, as its index, or 0
C15_OwnIndent(children, i) ==
    LET before == C15_NextMarker(children, i + 1)
        found == {j \in (i + 1)..(before - 1) : children[j].kind = "indent"}
    IN  IF found = {} THEN 0 ELSE CHOOSE j \in found : \A k \in found : j <= k

C15_DefinitionOf(block) ==
    IF block.def # None THEN Some(GetText(<<" ">>, block.def.val)) ELSE None

\* C15: a number marker is only paired with an indent block that lies
\* before the next number marker: the definitions returned are those of the
\* markers with such a block, each built from its own block, and a marker
\* without one is dropped.
C15_PairedBeforeNextMarker ==
    (DfDone /\ ~dfOut.raised) =>
        LET children == DfChildren
            paired == SelectSeq(DfIndices(children),
                                LAMBDA i : /\ children[i].kind = "num"
                                           /\ C15_OwnIndent(children, i) # 0)
        IN  /\ Len(dfOut.val) = Len(paired)
            /\ \A k \in 1..Len(paired) :
                  /\ dfOut.val[k].number = DfSenseOf(children, paired[k])
                  /\ dfOut.val[k].definition =
                        C15_DefinitionOf(children[C15_OwnIndent(children, paired[k])].block)

(***************************************************************************)
(* Claims about parse_fixed_expressions, over SpecFixed.                   *)
(***************************************************************************)
FxReturned ==
    fxPc = "done" /\ fxSoup.art # None /\ fxSoup.fu # None /\ ~fxOut.raised

FxChildren == fxSoup.fu.val

FxIndices(children) == [i \in 1..Len(children) |-> i]

FxIsIndent(node) == node.tag /\ "definitionIndent" \in node.cls

\* a div whose id begins with "udtryk-", with an index after it or not
FxHasUdtrykId(node) ==
    node.tag /\ node.name = "div" /\ StartsWith(node.id, UdtrykPrefix)

\* the first sibling from children[j] on that ends a walk, or the end of
\* the siblings: the next expression container (indexed), or the next div
\* whose id begins with "udtryk-"
RECURSIVE FxNextStop(_, _, _)
FxNextStop(children, j, indexed) ==
    IF j > Len(children) THEN j
    ELSE IF (IF indexed THEN IsUdtryk(children[j]) ELSE FxHasUdtrykId(children[j]))
    THEN j
    ELSE FxNextStop(children, j + 1, indexed)

\* the boxes of the indent blocks among children[j] .. children[e - 1]
RECURSIVE FxBoxesBetween(_, _, _)
FxBoxesBetween(children, j, e) ==
    IF j >= e THEN <<>>
    ELSE (IF FxIsIndent(children[j]) THEN children[j].boxes ELSE <<>>)
         \o FxBoxesBetween(children, j + 1, e)

\* the detail records of these boxes, in their order
RECURSIVE FxDetailsOf(_, _)
FxDetailsOf(boxes, ud_id) ==
    IF boxes = <<>> THEN <<>>
    ELSE LET got == BoxDetails(Head(boxes), ud_id)
         IN  (IF got.raised THEN <<>> ELSE got.val) \o FxDetailsOf(Tail(boxes), ud_id)

\* the expressions returned are those of the containers cs, each with the
\* details of the indent blocks from its container to the next stop
C16_Collected(children, cs, indexed) ==
    /\ Len(fxOut.val) = Len(cs)
    /\ \A k \in 1..Len(cs) :
          /\ fxOut.val[k].expression = GetText(<<>>, children[cs[k]].match.val)
          /\ fxOut.val[k].details =
                FxDetailsOf(FxBoxesBetween(children, cs[k] + 1,
                                           FxNextStop(children, cs[k] + 1, indexed)),
                            children[cs[k]].id)

\* the expressions whose walk visits the indent block children[j]
C16_Visitors(children, cs, indexed, j) ==
    {k \in 1..Len(cs) : cs[k] < j /\ j < FxNextStop(children, cs[k] + 1, indexed)}

\* C16 as stated: an expression collects the details of every indent block
\* up to the next expression container, and each indent block that follows
\* an expression container contributes to exactly one expression.
C16_AsStated ==
    FxReturned =>
        LET children == FxChildren
            cs == SelectSeq(FxIndices(children),
                            LAMBDA i : IsUdtryk(children[i]) /\ children[i].match # None)
        IN  /\ C16_Collected(children, cs, TRUE)
            /\ \A j \in 1..Len(children) :
                  (FxIsIndent(children[j]) /\ \E i \in 1..(j - 1) : IsUdtryk(children[i]))
                      => Cardinality(C16_Visitors(children, cs, TRUE, j)) = 1

\* C16: every expression container with a match span gives an expression
\* that collects, in document order, the details of every indent block among
\* its following siblings up to, and never beyond, the next div whose id
\* begins with "udtryk-" or the end of the siblings; each indent block
\* contributes to at most one expression, and to exactly one when the
\* nearest such div before it is a container with a match span.
C16_Amended ==
    FxReturned =>
        LET children == FxChildren
            cs == SelectSeq(FxIndices(children),
                            LAMBDA i : IsUdtryk(children[i]) /\ children[i].match # None)
            Owned(j) == \E i \in 1..(j - 1) :
                           /\ IsUdtryk(children[i]) /\ children[i].match # None
                           /\ \A q \in (i + 1)..(j - 1) : ~FxHasUdtrykId(children[q])
        IN  /\ C16_Collected(children, cs, FALSE)
            /\ \A j \in 1..Len(children) :
                  FxIsIndent(children[j])
                      => Cardinality(C16_Visitors(children, cs, FALSE, j))
                            = (IF Owned(j) THEN 1 ELSE 0)

\* two sibling containers, each followed by indent blocks that give details
C16_Witness ==
    /\ FxReturned
    /\ Len(fxOut.val) = 2
    /\ fxOut.val[1].details # <<>>
    /\ fxOut.val[2].details # <<>>
    /\ IsUdtryk(FxChildren[1])
    /\ FxIsIndent(FxChildren[2])

\* the boxes that the walk of the k-th returned expression visits, where cs
\* are the containers that have a match span
FxVisited(children, cs, k) ==
    FxBoxesBetween(children, cs[k] + 1, FxNextStop(children, cs[k] + 1, FALSE))

FxProducing(children) ==
    SelectSeq(FxIndices(children),
              LAMBDA i : IsUdtryk(children[i]) /\ children[i].match # None)

\* the tag that the conventions give a box, or "none": the id of a
\* definition of this expression, the classes onym, rel-begreber and
\* grammatik, the SPROGBRUG label with a plain-text span, a citation box
C17_Tag(box, ud_id) ==
    IF ud_id # <<>> /\ StartsWith(box.id, ud_id \o BetydningInfix) THEN "definition"
    ELSE IF "onym" \in box.cls THEN "see_also"
    ELSE IF "rel-begreber" \in box.cls THEN "related"
    ELSE IF "grammatik" \in box.cls THEN "grammar"
    ELSE IF box.stempel # None /\ GetText(<<>>, box.stempel.val) = Sprogbrug
    THEN (IF box.tekstnormal # None THEN "usage" ELSE "none")
    ELSE IF box.cite # None THEN "example"
    ELSE "none"

\* C17 as stated: every box of every indent block visited in an
\* expression's walk has exactly one detail record of that expression.
C17_AsStated ==
    FxReturned =>
        LET children == FxChildren
            cs == FxProducing(children)
        IN  \A k \in 1..Len(fxOut.val) :
               Len(fxOut.val[k].details) = Len(FxVisited(children, cs, k))

\* C17: the detail records of an expression are, in document order, one
\* record for each visited box that matches a convention, tagged by the
\* first convention it matches; a box that matches none (a SPROGBRUG label
\* without plain-text span, or no label and no citation box) has no record,
\* and no box has two.
C17_Amended ==
    FxReturned =>
        LET children == FxChildren
            cs == FxProducing(children)
        IN  \A k \in 1..Len(fxOut.val) :
               LET ud_id == children[cs[k]].id
                   tagged == SelectSeq(FxVisited(children, cs, k),
                                       LAMBDA box : C17_Tag(box, ud_id) # "none")
               IN  [n \in 1..Len(fxOut.val[k].details) |-> fxOut.val[k].details[n].type]
                      = [n \in 1..Len(tagged) |-> C17_Tag(tagged[n], ud_id)]

\* an expression whose walk visits boxes of every kind, two of them boxes
\* that match no convention
C17_Witness ==
    /\ FxReturned
    /\ Len(fxOut.val) = 1
    /\ Len(FxVisited(FxChildren, FxProducing(FxChildren), 1)) = 9
    /\ Len(fxOut.val[1].details) = 7

\* C18: every detail record of every fixed expression has a type among
\* definition, see_also, related, grammar, usage and example; definition,
\* grammar and usage carry exactly a text, see_also and related exactly an
\* items list, example a text and a source that may be null.
C18_DetailShape ==
    FxReturned =>
        \A k \in 1..Len(fxOut.val) :
           \A n \in 1..Len(fxOut.val[k].details) :
              LET d == fxOut.val[k].details[n]
              IN  /\ d.type \in {"definition", "see_also", "related", "grammar",
                                 "usage", "example"}
                  /\ d.type \in {"definition", "grammar", "usage"}
                        => DOMAIN d = {"type", "text"}
                  /\ d.type \in {"see_also", "related"}
                        => DOMAIN d = {"type", "items"}
                  /\ d.type = "example"
                        => /\ DOMAIN d = {"type", "text", "source"}
                           /\ d.source = None \/ d.source.some

\* an expression with a record of each type, one example without source
C18_Witness ==
    /\ FxReturned
    /\ \E k \in 1..Len(fxOut.val) :
          LET ds == fxOut.val[k].details
          IN  /\ {ds[n].type : n \in 1..Len(ds)}
                    = {"definition", "see_also", "related", "grammar", "usage", "example"}
              /\ \E n \in 1..Len(ds) : ds[n].type = "example" /\ ds[n].source = None
              /\ \E n \in 1..Len(ds) : ds[n].type = "example" /\ ds[n].source # None

(***************************************************************************)
(* Claims about parse_etymology, over SpecEtymology.                       *)
(***************************************************************************)
EtHasContents == etSoup.opr # None /\ etSoup.opr.val.span # None

EtContents == etSoup.opr.val.span.val

EtIndices(contents) == [i \in 1..Len(contents) |-> i]

EtReferences(contents) ==
    SelectSeq(EtIndices(contents), LAMBDA i : IsFormReference(contents[i]))

\* what a child between two form references adds to a description: a text
\* node its text, a divider decoration nothing, another tag its stripped
\* strings
C19_Adds(node) ==
    IF ~node.tag THEN node.strings[1]
    ELSE IF "dividerDot" \in node.cls THEN <<>>
    ELSE GetText(<<>>, node.strings)

\* the text of the children contents[from] .. contents[to]
RECURSIVE C19_Between(_, _, _)
C19_Between(contents, from, to) ==
    IF from > to THEN <<>>
    ELSE C19_Adds(contents[from]) \o C19_Between(contents, from + 1, to)

\* C19: parse_etymology returns nothing when the origin label or its text
\* node is missing; otherwise one segment per form-reference child, in
\* order, each with the form's text and, as description, the text of the
\* children between the previous form reference (or the start) and this
\* one, trimmed of blanks and commas, with nothing for a divider decoration;
\* the text after the last form reference ends raw and is in no segment.
C19_SegmentsPerFormReference ==
    /\ (etPc = "done" /\ ~EtHasContents) => etOut = None
    /\ (etPc = "done" /\ EtHasContents) =>
          LET contents == EtContents
              refs == EtReferences(contents)
              Previous(k) == IF k = 1 THEN 0 ELSE refs[k - 1]
              last == IF refs = <<>> THEN 0 ELSE refs[Len(refs)]
              after == SubSeq(contents, last + 1, Len(contents))
          IN  /\ etOut # None
              /\ Len(etOut.val.segments) = Len(refs)
              /\ \A k \in 1..Len(refs) :
                    /\ etOut.val.segments[k].form
                          = GetText(<<>>, contents[refs[k]].strings)
                    /\ etOut.val.segments[k].description
                          = StripChars(C19_Between(contents, Previous(k) + 1, refs[k] - 1),
                                       {" ", ","})
              /\ EndsWith(etOut.val.raw, GetText(<<" ">>, AllStrings(after)))

\* two form references with a divider decoration and a text between them,
\* and a text after the last one
C19_Witness ==
    /\ etPc = "done"
    /\ EtHasContents
    /\ Len(EtContents) = 5
    /\ IsFormReference(EtContents[1])
    /\ "dividerDot" \in EtContents[2].cls
    /\ ~EtContents[3].tag
    /\ IsFormReference(EtContents[4])
    /\ ~EtContents[5].tag
    /\ Len(etOut.val.segments) = 2
    /\ etOut.val.segments[2].description # <<>>

(***************************************************************************)
(* Claims about parse_orddannelser, over SpecOrd.                          *)
(***************************************************************************)
OdReturned == odPc = "done" /\ odSoup.ord # None /\ ~odOut.raised

OdBoxes == odSoup.ord.val

OdLabel(box) == GetText(<<>>, box.stempel.val)

\* the plain text that immediately trails children[i]: the text nodes from
\* children[i + 1] up to the next tag
C20_Trailing(children, i) ==
    LET tags == {j \in (i + 1)..Len(children) : children[j].tag}
        end == IF tags = {} THEN Len(children) + 1
               ELSE CHOOSE j \in tags : \A k \in tags : j <= k
        Text[j \in (i + 1)..end] ==
            IF j = end THEN <<>> ELSE children[j].strings[1] \o Text[j + 1]
    IN  Strip(Text[i + 1])

\* a box's own list: for each link of its inline list, the link's text and,
\* after a blank, its trailing text when there is one; empty with no list
C20_OwnList(box) ==
    IF box.inline = None THEN <<>>
    ELSE LET children == box.inline.val
             links == SelectSeq([i \in 1..Len(children) |-> i],
                                LAMBDA i : children[i].tag /\ children[i].name = "a")
             Combined(i) ==
                 LET form == GetText(<<>>, children[i].strings)
                     tail == C20_Trailing(children, i)
                 IN  IF tail = <<>> THEN form ELSE form \o <<" ">> \o tail
         IN  [n \in 1..Len(links) |-> Combined(links[n])]

\* the value of a key of the mapping, or None
C20_Get(d, key) ==
    LET at == {n \in 1..Len(d) : d[n].key = key}
    IN  IF at = {} THEN None ELSE Some(d[CHOOSE n \in at : TRUE].val)

\* C20 as stated: the mapping sends the label of every category box to that
\* box's own list, so that no box's forms are lost.
C20_AsStated ==
    OdReturned =>
        \A n \in 1..Len(OdBoxes) :
           C20_Get(odOut.val, OdLabel(OdBoxes[n])) = Some(C20_OwnList(OdBoxes[n]))

\* C20: the mapping has one key for each category label, in the order of
\* the labels' first boxes, and sends a label to the own list of the last
\* box that carries it; the forms of an earlier box with the same label are
\* replaced by those of the later one.
C20_Amended ==
    OdReturned =>
        LET boxes == OdBoxes
            IsLast(n) == \A m \in (n + 1)..Len(boxes) :
                            OdLabel(boxes[m]) # OdLabel(boxes[n])
            IsFirst(n) == \A m \in 1..(n - 1) :
                             OdLabel(boxes[m]) # OdLabel(boxes[n])
            firsts == SelectSeq([n \in 1..Len(boxes) |-> n], IsFirst)
        IN  /\ [n \in 1..Len(odOut.val) |-> odOut.val[n].key]
                  = [n \in 1..Len(firsts) |-> OdLabel(boxes[firsts[n]])]
            /\ \A n \in 1..Len(boxes) :
                  IsLast(n) => C20_Get(odOut.val, OdLabel(boxes[n]))
                                  = Some(C20_OwnList(boxes[n]))

\* two boxes with the same label and different forms, and a third box
C20_Witness ==
    /\ OdReturned
    /\ Len(OdBoxes) = 3
    /\ OdLabel(OdBoxes[1]) = OdLabel(OdBoxes[2])
    /\ C20_OwnList(OdBoxes[1]) # C20_OwnList(OdBoxes[2])
    /\ C20_OwnList(OdBoxes[2]) # <<>>
    /\ Len(odOut.val) = 2
    /\ odOut.val[1].val = C20_OwnList(OdBoxes[2])

(***************************************************************************)
(* Claims about the word forms of an Entry, over Spec.                     *)
(***************************************************************************)
\* the inflection text of a document: the text of the span after the label
C21_Text(doc) ==
    IF doc.boj = None \/ doc.boj.val.sib = None THEN <<>>
    ELSE GetText(<<>>, doc.boj.val.sib.val)

\* the comma-separated pieces of a text, trimmed, in order
C21_Pieces(text) ==
    LET commas == SelectSeq([i \in 1..Len(text) |-> i], LAMBDA i : text[i] = ",")
        From(n) == IF n = 1 THEN 1 ELSE commas[n - 1] + 1
        To(n) == IF n = Len(commas) + 1 THEN Len(text) ELSE commas[n] - 1
    IN  [n \in 1..(Len(commas) + 1) |-> Strip(SubSeq(text, From(n), To(n)))]

\* C21: the word forms of an Entry are the comma-separated pieces of the
\* inflection text, trimmed, in order, without the empty pieces and the
\* pieces equal to the raw headword, and then suffix-expanded; no word form
\* of an Entry is empty and none equals the raw headword.
C21_WordForms ==
    \A k \in 1..Len(entries) :
       LET doc == content[entries[k].file]
           raw_head == GetText(<<>>, doc.art.val.banner.val)
           kept == SelectSeq(C21_Pieces(C21_Text(doc)),
                             LAMBDA f : f # <<>> /\ f # raw_head)
       IN  /\ entries[k].wordforms = TransformWordforms(entries[k].headword, kept)
           /\ \A n \in 1..Len(entries[k].wordforms) :
                 /\ entries[k].wordforms[n] # <<>>
                 /\ entries[k].wordforms[n] # raw_head

\* an Entry from an inflection text with an empty piece, a piece equal to
\* the raw headword, a piece equal to the stripped headword and suffixes
C21_Witness ==
    \E k \in 1..Len(entries) :
       LET doc == content[entries[k].file]
           raw_head == GetText(<<>>, doc.art.val.banner.val)
           pieces == C21_Pieces(C21_Text(doc))
       IN  /\ \E n \in 1..Len(pieces) : pieces[n] = <<>>
           /\ \E n \in 1..Len(pieces) : pieces[n] = raw_head
           /\ \E n \in 1..Len(entries[k].wordforms) :
                 entries[k].wordforms[n] = entries[k].headword
           /\ Len(entries[k].wordforms) = 3
           /\ raw_head # entries[k].headword

(***************************************************************************)
(* update_ddo_html_versions.py: the version updater.  A request is one     *)
(* step; what the server answers is chosen freely at each request.  The    *)
(* HEAD requests of download_best (lines 78-86) only print, and their      *)
(* exceptions are caught, so they are no step of their own.                *)
(***************************************************************************)
\* line 17
MAX_RETRIES == 5
\* the longest list of candidate versions of a word
MaxUrls == 2

UpNames ==
    { <<"a", ".", "h", "t", "m", "l">>,
      <<"b", ".", "h", "t", "m", "l">>,
      <<"a", ".", "h", "t", "m">> }

\* what a GET request can do: answer with some bytes, fail raise_for_status
\* with an HTTP status, or raise another exception (status 0)
UpResponses ==
    {[kind |-> "ok", status |-> 200, content |-> c] :
        c \in {<<>>, <<"x">>, <<"y">>, <<"x", "y">>}}
    \cup {[kind |-> "http", status |-> st, content |-> <<>>] : st \in {503, 404}}
    \cup {[kind |-> "error", status |-> 0, content |-> <<>>]}

\* line 55: the HTTP error is answered by another attempt
RetriesAnyStatus(status, attempt) == attempt < MAX_RETRIES
Retries(status, attempt) == status = 503 /\ attempt < MAX_RETRIES

\* lines 50-63: what download_with_retries returns after a response that
\* ends the loop
Returned(r) ==
    IF r.kind = "ok"
    THEN [content |-> Some(r.content), err |-> None]
    ELSE [content |-> None, err |-> Some([http |-> r.kind = "http", status |-> r.status])]

\* line 98: the download replaces the best one so far
BetterOrEqual(size, best_size) == size >= best_size
Better(size, best_size) == size > best_size

\* line 125: "if not best_content" is not taken
HasContentNotNone(best_content) == best_content # None
HasContent(best_content) == best_content # None /\ best_content.val # <<>>

UpInit ==
    /\ \E d \in SUBSET UpNames : \E n \in [d -> 0..MaxUrls] :
          /\ \A fn \in d : ~EndsWith(fn, DotHtml) => n[fn] = 0
          /\ upFs = [fn \in d |-> <<"o", "l", "d">> \o fn]
          /\ upBak = [fn \in d |-> None]
          /\ upAlt = [fn \in d |-> [i \in 1..n[fn] |-> [query |-> fn, select |-> i]]]
    /\ upListing = <<>>
    /\ upNo = 0
    /\ upUrlNo = 0
    /\ best = [url |-> None, content |-> None, size |-> -1]
    /\ upGot = <<>>
    /\ upAttempt = 0
    /\ upResponses = <<>>
    /\ upReturned = None
    /\ upPc = "start"
    /\ WfIdle
    /\ ClIdle
    /\ UdIdle
    /\ MainIdle
    /\ ExtractorsIdle
    /\ DdIdle
    /\ TrIdle
    /\ AuIdle

\* line 107: sorted(os.listdir(HTML_DIR))
UpListDir ==
    /\ upPc = "start"
    /\ upListing' = Sorted(DOMAIN upFs)
    /\ upNo' = 1
    /\ upPc' = "loop"
    /\ UNCHANGED <<upFs, upBak, upAlt, upUrlNo, best, upGot, upAttempt, upResponses, upReturned>>

\* lines 108-109: a name that does not end in .html
UpSkipName ==
    /\ upPc = "loop"
    /\ upNo <= Len(upListing)
    /\ ~EndsWith(upListing[upNo], DotHtml)
    /\ upNo' = upNo + 1
    /\ UNCHANGED <<upFs, upBak, upAlt, upListing, upUrlNo, best, upGot, upAttempt,
                   upResponses, upReturned, upPc>>

\* lines 110-120: at most one candidate version
UpFewVersions ==
    /\ upPc = "loop"
    /\ upNo <= Len(upListing)
    /\ EndsWith(upListing[upNo], DotHtml)
    /\ Len(upAlt[upListing[upNo]]) <= 1
    /\ upNo' = upNo + 1
    /\ UNCHANGED <<upFs, upBak, upAlt, upListing, upUrlNo, best, upGot, upAttempt,
                   upResponses, upReturned, upPc>>

\* lines 110-123, 72-92, 48: several candidates, download_best is called
\* and calls download_with_retries for the first of them
UpOpen ==
    /\ upPc = "loop"
    /\ upNo <= Len(upListing)
    /\ EndsWith(upListing[upNo], DotHtml)
    /\ Len(upAlt[upListing[upNo]]) > 1
    /\ best' = [url |-> None, content |-> None, size |-> -1]
    /\ upGot' = <<>>
    /\ upUrlNo' = 1
    /\ upAttempt' = 1
    /\ upResponses' = <<>>
    /\ upReturned' = None
    /\ upPc' = "download"
    /\ UNCHANGED <<upFs, upBak, upAlt, upListing, upNo>>

\* the responses of the call of download_with_retries that is under way
UpCurrent == IF upReturned # None THEN <<>> ELSE upResponses

\* lines 92-103 and 48: download_best takes what download_with_retries
\* returned for urls[upUrlNo] and goes on to the next url, or returns
UpTake(r) ==
    LET urls == upAlt[upListing[upNo]]
        pair == Returned(r)
        size == Len(pair.content.val)
    IN  /\ upReturned' = Some(pair)
        /\ upGot' = Append(upGot, [url |-> urls[upUrlNo], content |-> pair.content,
                                   err |-> pair.err])
        /\ best' = IF pair.content # None /\ Better(size, best.size)
                   THEN [url |-> Some(urls[upUrlNo]), content |-> pair.content,
                         size |-> size]
                   ELSE best
        /\ upUrlNo' = upUrlNo + 1
        /\ upAttempt' = 1
        /\ upPc' = IF upUrlNo = Len(urls) THEN "best" ELSE "download"

\* lines 50-52: the request succeeds
UpRequestOk ==
    /\ upPc = "download"
    /\ upAttempt <= MAX_RETRIES
    /\ \E r \in UpResponses :
          /\ r.kind = "ok"
          /\ upResponses' = Append(UpCurrent, r)
          /\ UpTake(r)
    /\ UNCHANGED <<upFs, upBak, upAlt, upListing, upNo>>

\* lines 53-60: HTTP 503 before the last attempt, sleep and try again
UpRequestRetry ==
    /\ upPc = "download"
    /\ upAttempt <= MAX_RETRIES
    /\ \E r \in UpResponses :
          /\ r.kind = "http"
          /\ Retries(r.status, upAttempt)
          /\ upResponses' = Append(UpCurrent, r)
    /\ upAttempt' = upAttempt + 1
    /\ upReturned' = None
    /\ UNCHANGED <<upFs, upBak, upAlt, upListing, upNo, upUrlNo, best, upGot, upPc>>

\* lines 53-63: another HTTP error, HTTP 503 at the last attempt, or
\* another exception
UpRequestFail ==
    /\ upPc = "download"
    /\ upAttempt <= MAX_RETRIES
    /\ \E r \in UpResponses :
          /\ r.kind # "ok"
          /\ ~(r.kind = "http" /\ Retries(r.status, upAttempt))
          /\ upResponses' = Append(UpCurrent, r)
          /\ UpTake(r)
    /\ UNCHANGED <<upFs, upBak, upAlt, upListing, upNo>>

\* lines 125-138: a non-empty best download replaces the file, whose
\* previous content goes to the .bak file beside it
UpReplace ==
    /\ upPc = "best"
    /\ HasContent(best.content)
    /\ upBak' = [upBak EXCEPT ![upListing[upNo]] = Some(upFs[upListing[upNo]])]
    /\ upFs' = [upFs EXCEPT ![upListing[upNo]] = best.content.val]
    /\ upNo' = upNo + 1
    /\ upPc' = "loop"
    /\ UNCHANGED <<upAlt, upListing, upUrlNo, best, upGot, upAttempt, upResponses, upReturned>>

\* lines 125-127: no valid download
UpNoValid ==
    /\ upPc = "best"
    /\ ~HasContent(best.content)
    /\ upNo' = upNo + 1
    /\ upPc' = "loop"
    /\ UNCHANGED <<upFs, upBak, upAlt, upListing, upUrlNo, best, upGot, upAttempt,
                   upResponses, upReturned>>

\* line 107: the listing is exhausted
UpEnd ==
    /\ upPc = "loop"
    /\ upNo > Len(upListing)
    /\ upPc' = "done"
    /\ UNCHANGED <<upFs, upBak, upAlt, upListing, upNo, upUrlNo, best, upGot, upAttempt,
                   upResponses, upReturned>>

UpNext ==
    \/ UpListDir /\ UNCHANGED <<wfVars, clVars, udVars, mainVars, extractorVars, ddVars, trVars, auVars>>
    \/ UpSkipName /\ UNCHANGED <<wfVars, clVars, udVars, mainVars, extractorVars, ddVars, trVars, auVars>>
    \/ UpFewVersions /\ UNCHANGED <<wfVars, clVars, udVars, mainVars, extractorVars, ddVars, trVars, auVars>>
    \/ UpOpen /\ UNCHANGED <<wfVars, clVars, udVars, mainVars, extractorVars, ddVars, trVars, auVars>>
    \/ UpRequestOk /\ UNCHANGED <<wfVars, clVars, udVars, mainVars, extractorVars, ddVars, trVars, auVars>>
    \/ UpRequestRetry /\ UNCHANGED <<wfVars, clVars, udVars, mainVars, extractorVars, ddVars, trVars, auVars>>
    \/ UpRequestFail /\ UNCHANGED <<wfVars, clVars, udVars, mainVars, extractorVars, ddVars, trVars, auVars>>
    \/ UpReplace /\ UNCHANGED <<wfVars, clVars, udVars, mainVars, extractorVars, ddVars, trVars, auVars>>
    \/ UpNoValid /\ UNCHANGED <<wfVars, clVars, udVars, mainVars, extractorVars, ddVars, trVars, auVars>>
    \/ UpEnd /\ UNCHANGED <<wfVars, clVars, udVars, mainVars, extractorVars, ddVars, trVars, auVars>>

SpecUpdater == UpInit /\ [][UpNext]_vars

\* the script runs on its own: it waits for nothing but the answer to its
\* request (timeout=10) and the end of its sleep, so a step that is possible
\* is taken
SpecUpdaterFair == SpecUpdater /\ WF_vars(UpNext)

(***************************************************************************)
(* C22: download_with_retries always terminates after at most MAX_RETRIES  *)
(* requests for the URL; it makes a further request only after an HTTP 503 *)
(* response, returning at once on the first success and on the first       *)
(* non-503 failure; and it always returns a pair in which exactly one of   *)
(* the content and the error message is None.                              *)
(***************************************************************************)
C22_Is503(r) == r.kind = "http" /\ r.status = 503

C22_Requests ==
    /\ Len(upResponses) <= MAX_RETRIES
    /\ \A i \in 1..Len(upResponses) - 1 : C22_Is503(upResponses[i])
    /\ upPc = "download" /\ upReturned = None =>
          \A i \in 1..Len(upResponses) : C22_Is503(upResponses[i])
    /\ upReturned # None =>
          /\ upResponses # <<>>
          /\ (upReturned.val.content = None) # (upReturned.val.err = None)
          /\ upReturned.val.content # None <=> upResponses[Len(upResponses)].kind = "ok"

C22_Terminates ==
    /\ []C22_Requests
    /\ (upPc = "download" /\ upReturned = None) ~> (upReturned # None)

\* C22 witness: the call gave up after MAX_RETRIES answers of HTTP 503
C22_Witness ==
    /\ upReturned # None
    /\ upReturned.val.content = None
    /\ Len(upResponses) = MAX_RETRIES
    /\ C22_Is503(upResponses[MAX_RETRIES])

(***************************************************************************)
(* C23: download_best attempts every candidate URL and returns the URL,    *)
(* content and size of the successfully downloaded candidate with the      *)
(* greatest byte length, the earliest one in the list when several tie; a  *)
(* candidate whose download failed is never returned, and when all fail    *)
(* the result is (None, None, -1).                                         *)
(***************************************************************************)
C23_Succeeded == {i \in 1..Len(upGot) : upGot[i].content # None}
C23_Size(i) == Len(upGot[i].content.val)

C23_GreatestEarliest ==
    upPc = "best" =>
       LET urls == upAlt[upListing[upNo]]
       IN  /\ Len(upGot) = Len(urls)
           /\ \A i \in 1..Len(urls) : upGot[i].url = urls[i]
           /\ IF C23_Succeeded = {}
              THEN best = [url |-> None, content |-> None, size |-> -1]
              ELSE \E i \in C23_Succeeded :
                      /\ \A j \in C23_Succeeded : C23_Size(j) <= C23_Size(i)
                      /\ \A j \in C23_Succeeded : j < i => C23_Size(j) < C23_Size(i)
                      /\ best = [url |-> Some(urls[i]), content |-> upGot[i].content,
                                 size |-> C23_Size(i)]

\* C23 witness: the two candidates are downloaded with different contents
\* of the same length and the first one is returned
C23_Witness ==
    /\ upPc = "best"
    /\ C23_Succeeded = {1, 2}
    /\ C23_Size(1) = C23_Size(2)
    /\ upGot[1].content # upGot[2].content
    /\ best.content = upGot[1].content

(***************************************************************************)
(* C24: the version updater replaces a word's HTML file only when a        *)
(* non-empty candidate was downloaded successfully, and in that case the   *)
(* file's previous content is kept in the .bak file beside it; when the    *)
(* word has at most one candidate version, or no candidate downloads, the  *)
(* file is left unchanged and no backup is made.                           *)
(***************************************************************************)
C24_NonEmpty == {i \in C23_Succeeded : C23_Size(i) > 0}

C24_Step ==
    IF upPc = "best" /\ C24_NonEmpty # {}
    THEN LET fn == upListing[upNo]
         IN  /\ \E i \in C24_NonEmpty : upFs'[fn] = upGot[i].content.val
             /\ upBak'[fn] = Some(upFs[fn])
             /\ \A other \in DOMAIN upFs \ {fn} :
                   upFs'[other] = upFs[other] /\ upBak'[other] = upBak[other]
    ELSE upFs' = upFs /\ upBak' = upBak

C24_ReplacedOnlyByDownload == [][C24_Step]_vars

\* C24 witness: a file was replaced and its previous content is in the .bak
\* file, and a file with a single candidate version was passed over
C24_Witness ==
    /\ upPc = "done"
    /\ \E fn \in DOMAIN upFs :
          /\ upBak[fn] = Some(<<"o", "l", "d">> \o fn)
          /\ upFs[fn] # <<"o", "l", "d">> \o fn
    /\ \E fn \in DOMAIN upFs :
          /\ Len(upAlt[fn]) = 1
          /\ upBak[fn] = None
          /\ upFs[fn] = <<"o", "l", "d">> \o fn

(***************************************************************************)
(* dedupe_ddo_entries.py.  An entry is a record whose fields are None when *)
(* the key is missing and Some of the value otherwise; the printed         *)
(* statistics (lines 31-42) are left out.                                  *)
(***************************************************************************)
MaxEntries == 3

\* d.get(key, default) of a dict, and of a field of an entry
RECURSIVE DictGet(_, _, _)
DictGet(d, key, default) ==
    IF d = <<>> THEN default
    ELSE IF Head(d).key = key THEN Head(d).val
    ELSE DictGet(Tail(d), key, default)

Get(field, default) == IF field = None THEN default ELSE field.val

\* lines 16-18: the lengths of the values of orddannelser, summed
RECURSIVE SumLens(_)
SumLens(d) == IF d = <<>> THEN 0 ELSE Len(Head(d).val) + SumLens(Tail(d))

\* lines 7-19
richness_score(entry) ==
    Len(Get(entry.definitions, <<>>))
    + Len(Get(entry.fixed_expressions, <<>>))
    + Len(Get(entry.wordforms, <<>>))
    + Len(Get(entry.udtale, <<>>))
    + SumLens(Get(entry.orddannelser, <<>>))

\* lines 27-30: groups[hw].append(entry), groups a defaultdict(list)
RECURSIVE GroupLoop(_, _, _)
GroupLoop(entrylist, i, groups) ==
    IF i > Len(entrylist) THEN groups
    ELSE LET hw == entrylist[i].headword
         IN  GroupLoop(entrylist, i + 1,
                       DictSet(groups, hw, Append(DictGet(groups, hw, <<>>), entrylist[i])))

\* line 48: max(lst, key=richness_score), the first of the greatest ones
RECURSIVE MaxLoopLast(_, _, _)
MaxLoopLast(lst, i, m) ==
    IF i > Len(lst) THEN m
    ELSE MaxLoopLast(lst, i + 1,
                     IF richness_score(lst[i]) >= richness_score(m) THEN lst[i] ELSE m)

RECURSIVE MaxLoop(_, _, _)
MaxLoop(lst, i, m) ==
    IF i > Len(lst) THEN m
    ELSE MaxLoop(lst, i + 1,
                 IF richness_score(lst[i]) > richness_score(m) THEN lst[i] ELSE m)

\* lines 45-49
Dedupe(entrylist) ==
    LET groups == GroupLoop(entrylist, 1, <<>>)
    IN  [k \in 1..Len(groups) |-> MaxLoop(groups[k].val, 2, groups[k].val[1])]

DdEntrySet ==
    LET Blank == [headword |-> None, definitions |-> None, fixed_expressions |-> None,
                  wordforms |-> None, udtale |-> None, orddannelser |-> None,
                  etymology |-> None]
        Hus == Some(<<"h", "u", "s">>)
        Ga  == Some(<<"g", "å">>)
    IN  { [Blank EXCEPT !.headword = Hus, !.definitions = Some(<<"d1", "d2">>),
                        !.fixed_expressions = Some(<<>>)],
          [Blank EXCEPT !.headword = Hus, !.definitions = Some(<<"d1">>),
                        !.wordforms = Some(<<"huset">>)],
          [Blank EXCEPT !.headword = Hus,
                        !.orddannelser = Some(<< [key |-> "Afl", val |-> <<"a1">>],
                                                 [key |-> "Sms", val |-> <<>>] >>)],
          [Blank EXCEPT !.headword = Ga, !.fixed_expressions = Some(<<"f1">>)],
          [Blank EXCEPT !.headword = Ga, !.udtale = Some(<<"u1">>),
                        !.etymology = Some("e1")],
          Blank }

DdInit ==
    /\ ddEntries \in SeqsUpTo(DdEntrySet, MaxEntries)
    /\ ddOut = <<>>
    /\ ddPc = "call"
    /\ WfIdle
    /\ ClIdle
    /\ UdIdle
    /\ MainIdle
    /\ ExtractorsIdle
    /\ UpIdle
    /\ TrIdle
    /\ AuIdle

DdRun ==
    /\ ddPc = "call"
    /\ ddOut' = Dedupe(ddEntries)
    /\ ddPc' = "done"
    /\ UNCHANGED <<ddEntries, wfVars, clVars, udVars, mainVars, extractorVars, upVars, trVars, auVars>>

SpecDedupe == DdInit /\ [][DdRun]_vars

(***************************************************************************)
(* C25: the deduplicated list has exactly one entry per distinct headword  *)
(* of the input list; that entry is one of the input entries with that     *)
(* headword, unmodified, whose richness score (number of definitions +     *)
(* fixed expressions + word forms + pronunciations + word-formation items) *)
(* is the maximum of its group, and the first such entry in input order    *)
(* when several tie.                                                       *)
(***************************************************************************)
C25_Count(field) == IF field = None THEN 0 ELSE Len(field.val)

C25_Items(field) ==
    IF field = None THEN 0
    ELSE LET RECURSIVE Sum(_)
             Sum(k) == IF k = 0 THEN 0 ELSE Len(field.val[k].val) + Sum(k - 1)
         IN  Sum(Len(field.val))

C25_Score(e) ==
    C25_Count(e.definitions) + C25_Count(e.fixed_expressions) + C25_Count(e.wordforms)
    + C25_Count(e.udtale) + C25_Items(e.orddannelser)

C25_OnePerHeadword ==
    ddPc = "done" =>
       /\ {ddOut[k].headword : k \in 1..Len(ddOut)}
             = {ddEntries[i].headword : i \in 1..Len(ddEntries)}
       /\ \A k, l \in 1..Len(ddOut) : ddOut[k].headword = ddOut[l].headword => k = l
       /\ \A k \in 1..Len(ddOut) :
             \E i \in 1..Len(ddEntries) :
                /\ ddOut[k] = ddEntries[i]
                /\ \A j \in 1..Len(ddEntries) :
                      ddEntries[j].headword = ddEntries[i].headword =>
                         /\ C25_Score(ddEntries[j]) <= C25_Score(ddEntries[i])
                         /\ j < i => C25_Score(ddEntries[j]) < C25_Score(ddEntries[i])

\* C25 witness: two different entries of one headword tie for the greatest
\* score behind a poorer one, and the earlier of the two is kept
C25_Witness ==
    /\ ddPc = "done"
    /\ Len(ddEntries) = 3
    /\ Len(ddOut) = 1
    /\ C25_Score(ddEntries[1]) < C25_Score(ddEntries[2])
    /\ C25_Score(ddEntries[2]) = C25_Score(ddEntries[3])
    /\ ddEntries[2] # ddEntries[3]
    /\ ddOut[1] = ddEntries[2]

(***************************************************************************)
(* translate_definitions_batch.py.  A JSON value is [t, text, items]: t    *)
(* its type ("dict", "list", "str", "num", "null"), text the text of a     *)
(* string, items the [key, val] items of a dict and, with empty keys, the  *)
(* items of a list.  The answer of the                                     *)
(* model is [error, fence, body]: ollama.chat raised; or it returned a     *)
(* text, within code fences or not, whose body is None when it is no JSON  *)
(* and Some of the JSON value otherwise.  One call of the model is one     *)
(* step; the sleeps and the logging are left out.                          *)
(***************************************************************************)
MAX_RETRIES_translate == 10
MAX_DEFS_PER_BATCH == 30
MaxTrEntries == 2

JDict(items) == [t |-> "dict", text |-> <<>>, items |-> items]
JList(vals) ==
    [t |-> "list", text |-> <<>>,
     items |-> [i \in 1..Len(vals) |-> [key |-> <<>>, val |-> vals[i]]]]
JStr(text) == [t |-> "str", text |-> text, items |-> <<>>]
JNum == [t |-> "num", text |-> <<>>, items |-> <<>>]
JNull == [t |-> "null", text |-> <<>>, items |-> <<>>]

K_headword == <<"h", "e", "a", "d", "w", "o", "r", "d">>
K_definitions == <<"d", "e", "f", "i", "n", "i", "t", "i", "o", "n", "s">>
K_lemma == <<"l", "e", "m", "m", "a">>
K_gloss == <<"g", "l", "o", "s", "s">>

Keys(d) == {d[i].key : i \in 1..Len(d)}

\* str(i) of a natural number
RECURSIVE Str(_)
Str(i) ==
    LET digit == <<"0", "1", "2", "3", "4", "5", "6", "7", "8", "9">>
    IN  IF i < 10 THEN <<digit[i + 1]>> ELSE Str(i \div 10) \o <<digit[(i % 10) + 1]>>

\* k.isdigit()
IsDigit(k) == k # <<>> /\ \A i \in 1..Len(k) : k[i] \in Digits

\* lines 22-32: the fences are stripped and the text is decoded
try_parse_json(raw) == raw.body

\* the truth value of a JSON value
JTruthy(j) ==
    /\ j.t # "null"
    /\ j.t \in {"dict", "list"} => j.items # <<>>
    /\ j.t = "str" => j.text # <<>>

\* line 55
Payload(defs) == [i \in 1..Len(defs) |-> [key |-> Str(i - 1), val |-> defs[i]]]

\* lines 93-101: the definitions of an accepted schema, JNull when there are
\* none
OutDefs(parsed, headword) ==
    IF /\ DictGet(parsed.items, K_headword, JNull).t = "str"
       /\ DictGet(parsed.items, K_headword, JNull).text = headword
       /\ K_definitions \in Keys(parsed.items)
    THEN DictGet(parsed.items, K_definitions, JNull)
    ELSE IF headword \in Keys(parsed.items) /\ DictGet(parsed.items, headword, JNull).t = "dict"
    THEN LET cand == DictGet(parsed.items, headword, JNull)
         IN  IF /\ K_definitions \in Keys(cand.items)
                /\ DictGet(cand.items, K_definitions, JNull).t = "dict"
             THEN DictGet(cand.items, K_definitions, JNull)
             ELSE IF \A k \in Keys(cand.items) : IsDigit(k)
             THEN cand
             ELSE JNull
    ELSE JNull

\* lines 129-141
RECURSIVE ResultLoop(_, _, _, _)
ResultLoop(items, i, payload, result) ==
    IF i > Len(items) THEN result
    ELSE LET val == items[i].val
             entry == IF /\ val.t = "dict"
                         /\ K_lemma \in Keys(val.items)
                         /\ K_gloss \in Keys(val.items)
                      THEN val
                      ELSE IF val.t = "str"
                      THEN JDict(<< [key |-> K_lemma, val |-> val],
                                    [key |-> K_gloss, val |-> val] >>)
                      ELSE JDict(<< [key |-> K_lemma, val |-> JStr(<<>>)],
                                    [key |-> K_gloss, val |-> JStr(<<>>)] >>)
         IN  ResultLoop(items, i + 1, payload,
                        DictSet(result, DictGet(payload, items[i].key, <<>>), entry))

Going(feedback) == [kind |-> "continue", feedback |-> feedback, result |-> <<>>]
Raising(exc) == [kind |-> exc, feedback |-> "", result |-> <<>>]

\* lines 109-143: out_defs is not None
Accept(out_defs, payload) ==
    IF out_defs.t = "list" /\ Len(out_defs.items) # Len(payload)
    THEN Going("list length")
    ELSE LET dict == IF out_defs.t = "list"
                     THEN JDict([i \in 1..Len(out_defs.items) |->
                                    [key |-> Str(i - 1), val |-> out_defs.items[i].val]])
                     ELSE out_defs
         IN  IF dict.t # "dict" THEN Raising("AttributeError")
             ELSE IF Keys(dict.items) # Keys(payload) THEN Going("keys mismatch")
             ELSE [kind |-> "return", feedback |-> "",
                   result |-> ResultLoop(dict.items, 1, payload, <<>>)]

\* lines 71-143: one pass of the loop, given the answer of the model
Attempt(headword, payload, reply) ==
    IF reply.error THEN Going("ollama error")
    ELSE LET parsed == try_parse_json(reply)
         IN  IF parsed = None \/ ~JTruthy(parsed.val) THEN Going("invalid JSON")
             ELSE IF parsed.val.t # "dict" THEN Raising("AttributeError")
             ELSE IF OutDefs(parsed.val, headword).t = "null"
             THEN Going("no definitions in accepted schema")
             ELSE Accept(OutDefs(parsed.val, headword), payload)

\* what the model may answer to a call for headword and payload
TrReplies(headword, payload) ==
    LET Text(body) == [error |-> FALSE, fence |-> FALSE, body |-> body]
        good == JDict(<< [key |-> K_lemma, val |-> JStr(<<"L">>)],
                         [key |-> K_gloss, val |-> JStr(<<"G">>)] >>)
        full == [i \in 1..Len(payload) |-> [key |-> payload[i].key, val |-> good]]
        odd  == [i \in 1..Len(payload) |->
                    [key |-> payload[i].key, val |-> IF i = 1 THEN JNum ELSE good]]
        strs == [i \in 1..Len(payload) |-> JStr(<<"L">>)]
        Schema1(defs) == JDict(<< [key |-> K_headword, val |-> JStr(headword)],
                                  [key |-> K_definitions, val |-> defs] >>)
    IN  { [error |-> TRUE, fence |-> FALSE, body |-> None],
          Text(None),
          [error |-> FALSE, fence |-> TRUE, body |-> Some(JDict(<<>>))],
          Text(Some(JList(<<JNum>>))),
          [error |-> FALSE, fence |-> TRUE, body |-> Some(Schema1(JDict(full)))],
          Text(Some(Schema1(JDict(odd)))),
          Text(Some(Schema1(JDict(Front(full))))),
          Text(Some(Schema1(JList(strs)))),
          Text(Some(Schema1(JList(Append(strs, JNum))))),
          Text(Some(Schema1(JStr(<<"L">>)))),
          Text(Some(Schema1(JNull))),
          Text(Some(JDict(<< [key |-> K_headword, val |-> JStr(headword \o <<"s">>)],
                             [key |-> K_definitions, val |-> JDict(full)] >>))),
          Text(Some(JDict(<< [key |-> headword, val |-> Schema1(JDict(full))] >>))),
          Text(Some(JDict(<< [key |-> headword, val |-> JDict(full)] >>))),
          Text(Some(JDict(<< [key |-> headword, val |-> JDict(<< [key |-> K_lemma,
                                                                  val |-> JStr(<<"L">>)] >>)] >>))),
          Text(Some(JDict(<< [key |-> headword, val |-> JStr(<<"L">>)] >>))) }

\* lines 166-168
RECURSIVE DefsOf(_)
DefsOf(definitions) ==
    IF definitions = <<>> THEN <<>>
    ELSE (IF Head(definitions).definition # None /\ Head(definitions).definition.val # <<>>
          THEN <<Head(definitions).definition.val>> ELSE <<>>)
         \o DefsOf(Tail(definitions))

\* line 182: merged.update(part)
RECURSIVE DictUpdate(_, _)
DictUpdate(d, part) ==
    IF part = <<>> THEN d
    ELSE DictUpdate(DictSet(d, Head(part).key, Head(part).val), Tail(part))

TrEntrySet ==
    LET Texts(n) == [i \in 1..n |-> [definition |-> Some(<<"d">> \o Str(i))]]
    IN  { [headword |-> <<"a">>, definitions |-> None],
          [headword |-> <<"b">>, definitions |-> Some(<< [definition |-> None] >>)],
          [headword |-> <<"c">>, definitions |-> Some(Texts(2) \o << [definition |-> Some(<<>>)] >>)],
          [headword |-> <<"d">>, definitions |-> Some(Texts(MAX_DEFS_PER_BATCH + 1))] }

\* the progress map of a run that translated a headword before
TrDoneBefore(entry) ==
    << [key |-> entry.headword,
        val |-> [i \in 1..Len(DefsOf(Get(entry.definitions, <<>>))) |->
                    [key |-> DefsOf(Get(entry.definitions, <<>>))[i],
                     val |-> JDict(<< [key |-> K_lemma, val |-> JStr(<<"L">>)],
                                      [key |-> K_gloss, val |-> JStr(<<"G">>)] >>)]]] >>

\* lines 157-158
TrInit ==
    /\ trEntries \in {es \in SeqsUpTo(TrEntrySet, MaxTrEntries) :
                         \A i, j \in 1..Len(es) : es[i] = es[j] => i = j}
    /\ done \in {<<>>} \cup {TrDoneBefore(trEntries[i]) : i \in 1..Len(trEntries)}
    /\ trSaved = IF done = <<>> THEN None ELSE Some(done)
    /\ trNo = 1
    /\ trDefs = <<>>
    /\ trIdx = 0
    /\ merged = <<>>
    /\ trAttempt = 0
    /\ last_feedback = None
    /\ trOutcome = None
    /\ trPc = "loop"
    /\ WfIdle
    /\ ClIdle
    /\ UdIdle
    /\ MainIdle
    /\ ExtractorsIdle
    /\ UpIdle
    /\ DdIdle
    /\ AuIdle

TrHeadword == trEntries[trNo].headword

\* line 173
TrSplit == Len(trDefs) > MAX_DEFS_PER_BATCH

\* line 179, and line 197
TrBatch ==
    IF TrSplit
    THEN SubSeq(trDefs, trIdx + 1,
                IF trIdx + MAX_DEFS_PER_BATCH < Len(trDefs)
                THEN trIdx + MAX_DEFS_PER_BATCH ELSE Len(trDefs))
    ELSE trDefs

\* lines 161-164: the headword is in done
TrSkipDone ==
    /\ trPc = "loop"
    /\ trNo <= Len(trEntries)
    /\ TrHeadword \in Keys(done)
    /\ trNo' = trNo + 1
    /\ trOutcome' = None
    /\ UNCHANGED <<trEntries, done, trSaved, trDefs, trIdx, merged, trAttempt,
                   last_feedback, trPc>>

\* lines 166-171: no definition with a text
TrNoDefs ==
    /\ trPc = "loop"
    /\ trNo <= Len(trEntries)
    /\ TrHeadword \notin Keys(done)
    /\ DefsOf(Get(trEntries[trNo].definitions, <<>>)) = <<>>
    /\ done' = DictSet(done, TrHeadword, <<>>)
    /\ trNo' = trNo + 1
    /\ trOutcome' = None
    /\ UNCHANGED <<trEntries, trSaved, trDefs, trIdx, merged, trAttempt,
                   last_feedback, trPc>>

\* lines 173-181, 196-197 and 55-56: the function is called for the first
\* batch, or for all the definitions
TrBegin ==
    /\ trPc = "loop"
    /\ trNo <= Len(trEntries)
    /\ TrHeadword \notin Keys(done)
    /\ DefsOf(Get(trEntries[trNo].definitions, <<>>)) # <<>>
    /\ trDefs' = DefsOf(Get(trEntries[trNo].definitions, <<>>))
    /\ trIdx' = 0
    /\ merged' = <<>>
    /\ trAttempt' = 1
    /\ last_feedback' = None
    /\ trPc' = "call"
    /\ trOutcome' = None
    /\ UNCHANGED <<trEntries, done, trSaved, trNo>>

\* how a call of the function ended; its locals attempt and last_feedback,
\* and idx of the driver, are at rest between two calls
TrEnded(kind, result) ==
    Some([defs |-> TrBatch, kind |-> kind, result |-> result, calls |-> trAttempt])

\* lines 58-127: the answer is rejected and another attempt follows
TrRejected ==
    /\ trPc = "call"
    /\ trAttempt < MAX_RETRIES_translate
    /\ \E reply \in TrReplies(TrHeadword, Payload(TrBatch)) :
          LET out == Attempt(TrHeadword, Payload(TrBatch), reply)
          IN  /\ out.kind = "continue"
              /\ last_feedback' = Some(out.feedback)
    /\ trAttempt' = trAttempt + 1
    /\ UNCHANGED <<trEntries, done, trSaved, trNo, trDefs, trIdx, merged, trOutcome, trPc>>

\* lines 129-143, then 182-194 or 197-205: the function returns result
TrReturned ==
    /\ trPc = "call"
    /\ \E reply \in TrReplies(TrHeadword, Payload(TrBatch)) :
          LET out == Attempt(TrHeadword, Payload(TrBatch), reply)
              more == TrSplit /\ trIdx + MAX_DEFS_PER_BATCH < Len(trDefs)
              whole == IF TrSplit THEN DictUpdate(merged, out.result) ELSE out.result
          IN  /\ out.kind = "return"
              /\ trOutcome' = TrEnded("return", out.result)
              /\ merged' = IF TrSplit THEN whole ELSE merged
              /\ IF more
                 THEN /\ trIdx' = trIdx + MAX_DEFS_PER_BATCH
                      /\ trAttempt' = 1
                      /\ UNCHANGED <<done, trSaved, trNo, trPc>>
                 ELSE /\ done' = DictSet(done, TrHeadword, whole)
                      /\ trSaved' = Some(done')
                      /\ trNo' = trNo + 1
                      /\ trPc' = "loop"
                      /\ trIdx' = 0
                      /\ trAttempt' = 0
    /\ last_feedback' = None
    /\ UNCHANGED <<trEntries, trDefs>>

\* lines 145-148 or an exception of lines 94 and 124, then 186-194 or
\* 199-201: the function raises
TrRaised ==
    /\ trPc = "call"
    /\ \E reply \in TrReplies(TrHeadword, Payload(TrBatch)) :
          LET out == Attempt(TrHeadword, Payload(TrBatch), reply)
          IN  /\ \/ out.kind = "continue" /\ trAttempt = MAX_RETRIES_translate
                 \/ out.kind \notin {"continue", "return"}
              /\ trOutcome' = TrEnded(IF out.kind = "continue" THEN "RuntimeError"
                                      ELSE out.kind, <<>>)
    /\ IF TrSplit
       THEN /\ merged' = <<>>
            /\ done' = DictSet(done, TrHeadword, <<>>)
            /\ trSaved' = Some(done')
       ELSE UNCHANGED <<merged, done, trSaved>>
    /\ trNo' = trNo + 1
    /\ trPc' = "loop"
    /\ last_feedback' = None
    /\ trIdx' = 0
    /\ trAttempt' = 0
    /\ UNCHANGED <<trEntries, trDefs>>

\* line 161: the entries are exhausted
TrEnd ==
    /\ trPc = "loop"
    /\ trNo > Len(trEntries)
    /\ trPc' = "done"
    /\ trOutcome' = None
    /\ UNCHANGED <<trEntries, done, trSaved, trNo, trDefs, trIdx, merged, trAttempt,
                   last_feedback>>

TrNext ==
    \/ TrSkipDone /\ UNCHANGED <<wfVars, clVars, udVars, mainVars, extractorVars, upVars, ddVars, auVars>>
    \/ TrNoDefs /\ UNCHANGED <<wfVars, clVars, udVars, mainVars, extractorVars, upVars, ddVars, auVars>>
    \/ TrBegin /\ UNCHANGED <<wfVars, clVars, udVars, mainVars, extractorVars, upVars, ddVars, auVars>>
    \/ TrRejected /\ UNCHANGED <<wfVars, clVars, udVars, mainVars, extractorVars, upVars, ddVars, auVars>>
    \/ TrReturned /\ UNCHANGED <<wfVars, clVars, udVars, mainVars, extractorVars, upVars, ddVars, auVars>>
    \/ TrRaised /\ UNCHANGED <<wfVars, clVars, udVars, mainVars, extractorVars, upVars, ddVars, auVars>>
    \/ TrEnd /\ UNCHANGED <<wfVars, clVars, udVars, mainVars, extractorVars, upVars, ddVars, auVars>>

SpecTranslate == TrInit /\ [][TrNext]_vars

C28_Texts(entry) ==
    LET defs == DefsOf(Get(entry.definitions, <<>>))
    IN  {defs[i] : i \in 1..Len(defs)}

C28_RecordedOnlyWhenTranslated ==
    /\ \A i \in 1..Len(trEntries) :
          trEntries[i].headword \in Keys(done) =>
             Keys(DictGet(done, trEntries[i].headword, <<>>)) = C28_Texts(trEntries[i])
    /\ trPc = "call" => TrHeadword \notin Keys(done)

(***************************************************************************)
(* download_audio_and_map.py.  A response is [status_ok, cd, filename,     *)
(* body_ok]: the request and raise_for_status passed; the response has a   *)
(* content-disposition header; None, or Some of the file name the regex    *)
(* of line 31 finds in it; the body could be read to its end.              *)
(***************************************************************************)
MaxAuEntries == 2

OUTPUT_DIR == <<"a", "u", "d", "i", "o">>

\* os.path.basename(urlparse(url).path) of a URL without query
RECURSIVE Basename(_)
Basename(url) ==
    IF url = <<>> \/ Last(url) = "/" THEN <<>>
    ELSE Basename(Front(url)) \o <<Last(url)>>

\* lines 29-39
derive_filename(resp, url) ==
    LET raw == IF resp.cd /\ resp.filename # None THEN resp.filename.val
               ELSE Basename(url)
    IN  [i \in 1..Len(raw) |-> IF raw[i] = " " THEN "." ELSE raw[i]]

\* line 75: os.path.join(OUTPUT_DIR, fname)
LocalPath(fname) == OUTPUT_DIR \o <<"/">> \o fname

\* line 64
AlreadyInNever(audio_url, map) == FALSE
AlreadyIn(audio_url, map) == audio_url \in Keys(map)

\* lines 57-58: the udtale records of the entries, one after the other
RECURSIVE AuFlatten(_)
AuFlatten(entrylist) ==
    IF entrylist = <<>> THEN <<>>
    ELSE Get(Head(entrylist).udtale, <<>>) \o AuFlatten(Tail(entrylist))

AuInputs ==
    LET U1 == <<"h", ":", "/", "/", "x", "/", "a", " ", "b", ".", "m", "p", "3">>
        U2 == <<"h", ":", "/", "/", "x", "/", "c", ".", "m", "p", "3">>
        U3 == <<"h", ":", "/", "/", "y", "/", "c", ".", "m", "p", "3">>
        Ud(url) == [audio |-> url]
    IN  [entries |-> { [udtale |-> None],
                       [udtale |-> Some(<<Ud(None), Ud(Some(U1))>>)],
                       [udtale |-> Some(<<Ud(Some(U2)), Ud(Some(<<>>)), Ud(Some(U1))>>)],
                       [udtale |-> Some(<<Ud(Some(U3))>>)] },
         maps |-> { <<>>, << [key |-> U1, val |-> LocalPath(<<"o", "l", "d">>)] >> },
         files |-> { {}, {LocalPath(<<"c", ".", "m", "p", "3">>)} },
         responses |-> { [status_ok |-> FALSE, cd |-> FALSE, filename |-> None, body_ok |-> FALSE],
                         [status_ok |-> TRUE, cd |-> FALSE, filename |-> None, body_ok |-> TRUE],
                         [status_ok |-> TRUE, cd |-> FALSE, filename |-> None, body_ok |-> FALSE],
                         [status_ok |-> TRUE, cd |-> TRUE, filename |-> None, body_ok |-> TRUE],
                         [status_ok |-> TRUE, cd |-> TRUE, filename |-> Some(<<"n", " ", "1">>),
                          body_ok |-> TRUE] }]

\* lines 44-54
AuInit ==
    /\ \E es \in SeqsUpTo(AuInputs.entries, MaxAuEntries) : auList = AuFlatten(es)
    /\ audio_map \in AuInputs.maps
    /\ auLocal \in AuInputs.files
    /\ auNo = 1
    /\ auRequests = <<>>
    /\ auSaved = IF audio_map = <<>> THEN None ELSE Some(audio_map)
    /\ auPc = "loop"
    /\ WfIdle
    /\ ClIdle
    /\ UdIdle
    /\ MainIdle
    /\ ExtractorsIdle
    /\ UpIdle
    /\ DdIdle
    /\ TrIdle

AuUrl == auList[auNo].audio

\* line 60: not audio_url
AuNoUrl == IF AuUrl = None THEN TRUE ELSE AuUrl.val = <<>>

\* lines 59-61: no audio URL
AuNoAudio ==
    /\ auPc = "loop"
    /\ auNo <= Len(auList)
    /\ AuNoUrl
    /\ auNo' = auNo + 1
    /\ UNCHANGED <<auList, audio_map, auLocal, auRequests, auSaved, auPc>>

\* lines 64-66: the URL is in the map
AuKnown ==
    /\ auPc = "loop"
    /\ auNo <= Len(auList)
    /\ ~AuNoUrl
    /\ AlreadyIn(AuUrl.val, audio_map)
    /\ auNo' = auNo + 1
    /\ UNCHANGED <<auList, audio_map, auLocal, auRequests, auSaved, auPc>>

\* the guard of lines 68-94, and the request
AuRequest(resp, ok) ==
    /\ auPc = "loop"
    /\ auNo <= Len(auList)
    /\ ~AuNoUrl
    /\ ~AlreadyIn(AuUrl.val, audio_map)
    /\ resp \in AuInputs.responses
    /\ auRequests' = Append(auRequests, [url |-> AuUrl.val, ok |-> ok])
    /\ auNo' = auNo + 1

\* lines 70-71 and 93-94: the request fails
AuFailed ==
    /\ \E resp \in AuInputs.responses :
          /\ ~resp.status_ok
          /\ AuRequest(resp, FALSE)
    /\ UNCHANGED <<auList, audio_map, auLocal, auSaved, auPc>>

\* lines 74-82: the file is in OUTPUT_DIR already
AuExists ==
    /\ \E resp \in AuInputs.responses :
          /\ resp.status_ok
          /\ AuRequest(resp, TRUE)
          /\ LocalPath(derive_filename(resp, AuUrl.val)) \in auLocal
          /\ audio_map' = DictSet(audio_map, AuUrl.val,
                                  LocalPath(derive_filename(resp, AuUrl.val)))
    /\ UNCHANGED <<auList, auLocal, auSaved, auPc>>

\* lines 74-91: the file is written
AuDownloaded ==
    /\ \E resp \in AuInputs.responses :
          /\ resp.status_ok /\ resp.body_ok
          /\ AuRequest(resp, TRUE)
          /\ LocalPath(derive_filename(resp, AuUrl.val)) \notin auLocal
          /\ auLocal' = auLocal \cup {LocalPath(derive_filename(resp, AuUrl.val))}
          /\ audio_map' = DictSet(audio_map, AuUrl.val,
                                  LocalPath(derive_filename(resp, AuUrl.val)))
    /\ UNCHANGED <<auList, auSaved, auPc>>

\* lines 74-87 and 93-94: reading the body fails, the file opened at line 85
\* stays
AuBroken ==
    /\ \E resp \in AuInputs.responses :
          /\ resp.status_ok /\ ~resp.body_ok
          /\ AuRequest(resp, FALSE)
          /\ LocalPath(derive_filename(resp, AuUrl.val)) \notin auLocal
          /\ auLocal' = auLocal \cup {LocalPath(derive_filename(resp, AuUrl.val))}
    /\ UNCHANGED <<auList, audio_map, auSaved, auPc>>

\* lines 57 and 97-99: the loops are over, the map is written
AuSave ==
    /\ auPc = "loop"
    /\ auNo > Len(auList)
    /\ auSaved' = Some(audio_map)
    /\ auPc' = "done"
    /\ UNCHANGED <<auList, audio_map, auLocal, auNo, auRequests>>

AuNext ==
    \/ AuNoAudio /\ UNCHANGED <<wfVars, clVars, udVars, mainVars, extractorVars, upVars, ddVars, trVars>>
    \/ AuKnown /\ UNCHANGED <<wfVars, clVars, udVars, mainVars, extractorVars, upVars, ddVars, trVars>>
    \/ AuFailed /\ UNCHANGED <<wfVars, clVars, udVars, mainVars, extractorVars, upVars, ddVars, trVars>>
    \/ AuExists /\ UNCHANGED <<wfVars, clVars, udVars, mainVars, extractorVars, upVars, ddVars, trVars>>
    \/ AuDownloaded /\ UNCHANGED <<wfVars, clVars, udVars, mainVars, extractorVars, upVars, ddVars, trVars>>
    \/ AuBroken /\ UNCHANGED <<wfVars, clVars, udVars, mainVars, extractorVars, upVars, ddVars, trVars>>
    \/ AuSave /\ UNCHANGED <<wfVars, clVars, udVars, mainVars, extractorVars, upVars, ddVars, trVars>>

SpecAudio == AuInit /\ [][AuNext]_vars

(***************************************************************************)
(* C27: in the audio downloader the map only grows: a URL already in the   *)
(* audio map is never requested again and its mapped path is never changed *)
(* or removed, and a URL whose download fails is not added to the map and  *)
(* does not stop the remaining URLs from being processed.                  *)
(***************************************************************************)
C27_Step ==
    /\ \A u \in Keys(audio_map) :
          /\ u \in Keys(audio_map')
          /\ DictGet(audio_map', u, <<>>) = DictGet(audio_map, u, <<>>)
    /\ auSaved' # auSaved =>
          /\ auSaved' = Some(audio_map')
          /\ auSaved # None => \A u \in Keys(auSaved.val) :
                DictGet(audio_map', u, <<>>) = DictGet(auSaved.val, u, <<>>)
    /\ auRequests' # auRequests =>
          /\ Last(auRequests').url \notin Keys(audio_map)
          /\ ~Last(auRequests').ok =>
                /\ audio_map' = audio_map
                /\ auPc' = "loop"
                /\ auNo' = auNo + 1

C27_MapOnlyGrows == [][C27_Step]_vars

\* C27 witness: a URL of the map was passed over, a download failed, a later
\* one was added to the map, and the map was written with its old pair
C27_Witness ==
    /\ auPc = "done"
    /\ Len(audio_map) > 1
    /\ audio_map[1].val = LocalPath(<<"o", "l", "d">>)
    /\ \E i \in 1..Len(auList) : auList[i].audio = Some(audio_map[1].key)
    /\ \A k \in 1..Len(auRequests) : auRequests[k].url # audio_map[1].key
    /\ \E k, l \in 1..Len(auRequests) :
          /\ k < l
          /\ ~auRequests[k].ok
          /\ auRequests[l].ok
          /\ auRequests[k].url \notin Keys(audio_map)
          /\ auRequests[l].url \in Keys(audio_map)

(***************************************************************************)
(* C29: an expression container without a highlighted match span produces  *)
(* no expression, yet still ends the sibling walk of the expression before *)
(* it: the detail boxes between such a container and the next container    *)
(* are attached to no expression at all.                                   *)
(***************************************************************************)
C29_Matchless(node) == IsUdtryk(node) /\ node.match = None

\* the boxes after the match-less container children[i], up to the next
\* div whose id begins with "udtryk-"
C29_Orphans(children, i) ==
    FxBoxesBetween(children, i + 1, FxNextStop(children, i + 1, FALSE))

C29_MatchlessEndsWalk ==
    FxReturned =>
        LET children == FxChildren
            cs == FxProducing(children)
        IN  /\ Len(fxOut.val) = Len(cs)
            /\ \A k \in 1..Len(cs) :
                  /\ fxOut.val[k].expression = GetText(<<>>, children[cs[k]].match.val)
                  /\ fxOut.val[k].details =
                        FxDetailsOf(FxVisited(children, cs, k), children[cs[k]].id)
            /\ \A i \in 1..Len(children) :
                  C29_Matchless(children[i]) =>
                     \A k \in 1..Len(cs) :
                        (cs[k] < i /\ \A q \in (cs[k] + 1)..(i - 1) :
                                         ~FxHasUdtrykId(children[q]))
                           => fxOut.val[k].details =
                                 FxDetailsOf(FxBoxesBetween(children, cs[k] + 1, i),
                                             children[cs[k]].id)

\* C29 witness: a container with a match span and its indent block, then a
\* container without one followed by an indent block whose boxes give
\* details; the one expression returned has the details of the first block
C29_Witness ==
    /\ FxReturned
    /\ Len(FxChildren) = 4
    /\ IsUdtryk(FxChildren[1]) /\ FxChildren[1].match # None
    /\ FxIsIndent(FxChildren[2])
    /\ C29_Matchless(FxChildren[3])
    /\ FxIsIndent(FxChildren[4])
    /\ FxDetailsOf(C29_Orphans(FxChildren, 3), FxChildren[3].id) # <<>>
    /\ Len(fxOut.val) = 1
    /\ fxOut.val[1].details = FxDetailsOf(FxChildren[2].boxes, FxChildren[1].id)
    /\ fxOut.val[1].details # <<>>

(***************************************************************************)
(* C30: the link-cleaning rule is idempotent: applying clean_links to the  *)
(* texts it returned gives the same list back, so no text in its output is *)
(* a boilerplate text, is empty, or ends in a digit.                       *)
(***************************************************************************)
C30_Idempotent ==
    clPc = "done" =>
       /\ CleanLinks(clOut) = clOut
       /\ \A i \in 1..Len(clOut) :
             /\ clOut[i] \notin UNWANTED_TEXTS
             /\ clOut[i] # <<>>
             /\ Last(clOut[i]) \notin Digits

====
